---- MODULE Spec2Model ----
(***************************************************************************)
(* Model of the ingestion pipeline and the dispatch/element model of       *)
(* app_monitor: WindowValidator, OrderedDecoder, StructDecoder,            *)
(* SerialUpdateServer.start, UpdateServer.process_update, MonitorManager   *)
(* and MonitorGroup, and of the element classes (TextElement, ProgressBar, *)
(* RangeBar, Table, LogMonitor, IndicatorLamp, MachineState) with their    *)
(* renderings.                                                             *)
(*                                                                         *)
(* Bytes are integers 0..255, byte strings and text are sequences of them. *)
(* Python objects (elements) live in a heap addressed by references, so    *)
(* that aliasing and deepcopy are visible.  Numbers are integers: the      *)
(* range bars of the model have integral midpoints and scale 1.            *)
(*                                                                         *)
(* Specifications:                                                         *)
(*   SpecValidator  WindowValidator.validate on any frame                  *)
(*   SpecOrdered    OrderedDecoder.decode on any payload                   *)
(*   SpecStruct     StructDecoder.decode on any payload                    *)
(*   SpecManager    MonitorManager: add_element, add_element_group, update *)
(*   SpecElements   one element or group: update, display, display_all     *)
(*   Spec           SerialUpdateServer.start polling a serial port         *)
(*   SpecReconnect  SerialUpdateServer.reconnect                           *)
(*   SpecDiscovery  SerialUpdateServer.__init__ with detect_devices        *)
(*   SpecGroup      MonitorGroup: constructor, add_element, update_element,*)
(*                  get_height                                             *)
(*   SpecLoop       start() and update_at_fixed_rate() on one event loop   *)
(*   SpecZmq        ZeroMQUpdateServer.start, ZeroMQUpdateManager          *)
(*   SpecReader     AppMonitorReader.read_data on any buffer               *)
(*   SpecFormatter  TextFormatter.format_text                              *)
(*   SpecCsv        CSVLogger: log, stop and the worker thread             *)
(***************************************************************************)
EXTENDS Integers, Sequences, FiniteSets, TLC

VARIABLES
    validator,   \* SerialUpdateServer.validator, or the WindowValidator being called
    decoder,     \* SerialUpdateServer.decoder, or the decoder being called
    packet,      \* the packet argument of validate / decode
    result,      \* what validate / decode returned
    rx,          \* bytes waiting in the serial connection's input buffer
    is_open,     \* serial_connection.is_open
    pc,          \* position of SerialUpdateServer.start
    stop_cause,  \* the stage whose exception ended start()
    elements,    \* MonitorManager.elements
    heap,        \* reference -> element object
    last_call,   \* the last call made on the MonitorManager, with its outcome
    cycle,       \* the last polling cycle: what it read, decoded and dispatched
    timeout,     \* whether the serial connection has a read timeout
    writes,      \* number of frames the device has written
    serial_connection, \* SerialUpdateServer.serial_connection: a Serial object or None
    devices,     \* the device paths glob finds, each with whether it can be opened
    log,         \* what logger.error / logger.info / print have been given
    socket,      \* messages waiting on the subscriber socket
    trace,       \* the calls made on the MonitorManager, in order
    loop,        \* the asyncio event loop: its clock and the tasks asleep on it
    csv          \* the CSVLogger object and the position of its threads

(* the state of the transports' setup, the event loop and the CSV logger *)
ext == <<serial_connection, devices, log, socket, trace, loop, csv>>

vars == <<validator, decoder, packet, result, rx, is_open, pc, stop_cause,
          elements, heap, last_call, cycle, timeout, writes,
          serial_connection, devices, log, socket, trace, loop, csv>>

----------------------------------------------------------------------------
(* Bounds *)
MaxFrameLen == 4
MaxWindow == 3
MaxPayloadLen == 4
MaxElements == 2
MaxWrites == 2

----------------------------------------------------------------------------
(* Bytes *)
START_BYTE == 165      \* 0xA5
END_BYTE == 90         \* 0x5A
NL == 10               \* "\n"
SP == 32               \* " "
COMMA == 44            \* ","
D1 == 49               \* "1"
D2 == 50               \* "2"
BAD == 255             \* 0xFF, never valid in UTF-8
LA == 97               \* "a", not a number

BoundedSeq(S, n) == UNION {[1..k -> S] : k \in 0..n}

(* Outcomes of a call: returned bytes (or text), a returned mapping, the     *)
(* False sentinel, or an exception                                          *)
Ret(v) == [tag |-> "value", val |-> v, exc |-> ""]
Dict(m) == [tag |-> "dict", val |-> m, exc |-> ""]
RetFalse == [tag |-> "False", val |-> <<>>, exc |-> ""]
Raise(e) == [tag |-> "raise", val |-> <<>>, exc |-> e]
NoResult == [tag |-> "none", val |-> <<>>, exc |-> ""]

NoValidator == [kind |-> "None", window_size |-> 0, start_byte |-> 0, end_byte |-> 0]
WindowValidator(ws, sb, eb) ==
    [kind |-> "Window", window_size |-> ws, start_byte |-> sb, end_byte |-> eb]

(* Values carried by a decoded update: text (str) or a number (int) *)
StrVal(s) == [type |-> "str", str |-> s, int |-> 0]
IntVal(n) == [type |-> "int", str |-> <<>>, int |-> n]

(* packet_format: byte order "<" or ">" followed by field codes, "B" an      *)
(* unsigned byte and "H" an unsigned 16-bit integer; order "" is None.       *)
NoFormat == [order |-> "", fields |-> <<>>]
Format(o, f) == [order |-> o, fields |-> f]

NoDecoder == [kind |-> "None", keys |-> <<>>, separator |-> 0, packet_format |-> NoFormat]
OrderedDecoder(keys, sep) ==
    [kind |-> "Ordered", keys |-> keys, separator |-> sep, packet_format |-> NoFormat]
StructDecoder(data_keys, fmt) ==
    [kind |-> "Struct", keys |-> data_keys, separator |-> 0, packet_format |-> fmt]

----------------------------------------------------------------------------
(* WindowValidator.validate: `and` short-circuits left to right; packet[0]  *)
(* on an empty byte string is an IndexError.                                *)
validate_NoEndCheck(v, p) ==
    IF Len(p) # v.window_size THEN RetFalse
    ELSE IF Len(p) = 0 THEN Raise("IndexError")
    ELSE IF p[1] = v.start_byte
         THEN Ret(SubSeq(p, 2, Len(p) - 1))
         ELSE RetFalse

validate(v, p) ==
    IF Len(p) # v.window_size THEN RetFalse
    ELSE IF Len(p) = 0 THEN Raise("IndexError")
    ELSE IF p[1] = v.start_byte /\ p[Len(p)] = v.end_byte
         THEN Ret(SubSeq(p, 2, Len(p) - 1))
         ELSE RetFalse

----------------------------------------------------------------------------
(* Text helpers of the Python runtime the decoders rely on                  *)
Min(a, b) == IF a < b THEN a ELSE b

(* bytes.decode("utf-8"): bytes below 0x80 are themselves; the bytes at or  *)
(* above 0x80 that occur in this model (0xA5, 0xFF) are a continuation byte *)
(* without a lead byte and an invalid byte: UnicodeDecodeError.             *)
utf8_decode(p) ==
    IF \E i \in 1..Len(p) : p[i] >= 128 THEN Raise("UnicodeDecodeError") ELSE Ret(p)

(* str.isspace for the ASCII range *)
IsSpace(c) == c \in (9..13) \cup (28..32)

RECURSIVE lstrip(_)
lstrip(s) == IF s # <<>> /\ IsSpace(Head(s)) THEN lstrip(Tail(s)) ELSE s

RECURSIVE rstrip(_)
rstrip(s) ==
    IF s # <<>> /\ IsSpace(s[Len(s)]) THEN rstrip(SubSeq(s, 1, Len(s) - 1)) ELSE s

strip(s) == rstrip(lstrip(s))

(* str.split(sep) for a one-character separator: always at least one field *)
RECURSIVE split(_, _)
split(s, sep) ==
    IF \E i \in 1..Len(s) : s[i] = sep
    THEN LET i == CHOOSE k \in 1..Len(s) :
                      s[k] = sep /\ \A j \in 1..(k - 1) : s[j] # sep
         IN <<SubSeq(s, 1, i - 1)>> \o split(SubSeq(s, i + 1, Len(s)), sep)
    ELSE <<s>>

(* OrderedDict(zip(keys, data)): pairs in order up to the shorter length; a *)
(* repeated key keeps its first position and takes the later value.         *)
RECURSIVE OrderedDictOf(_, _, _)
OrderedDictOf(keys, data, i) ==
    IF i = 0 THEN <<>>
    ELSE LET d == OrderedDictOf(keys, data, i - 1)
             item == [key |-> keys[i], value |-> data[i]]
         IN IF \E j \in 1..Len(d) : d[j].key = keys[i]
            THEN [j \in 1..Len(d) |-> IF d[j].key = keys[i] THEN item ELSE d[j]]
            ELSE Append(d, item)

zip_dict(keys, data) == OrderedDictOf(keys, data, Min(Len(keys), Len(data)))

(* OrderedDecoder.decode *)
ordered_decode_NoStrip(d, p) ==
    LET text == utf8_decode(p)
    IN IF text.tag = "raise" THEN text
       ELSE LET data == split(text.val, d.separator)
            IN Dict(zip_dict(d.keys, [i \in 1..Len(data) |-> StrVal(data[i])]))

ordered_decode(d, p) ==
    LET text == utf8_decode(p)
    IN IF text.tag = "raise" THEN text
       ELSE LET data == split(strip(text.val), d.separator)
            IN Dict(zip_dict(d.keys, [i \in 1..Len(data) |-> StrVal(data[i])]))

----------------------------------------------------------------------------
(* struct: sizes and unpacking of the standard-size formats "<..." / ">..." *)
FieldSize(c) == IF c = "H" THEN 2 ELSE 1

RECURSIVE calcsize_fields(_)
calcsize_fields(f) == IF f = <<>> THEN 0 ELSE FieldSize(Head(f)) + calcsize_fields(Tail(f))

calcsize(fmt) == calcsize_fields(fmt.fields)

unpack_field(order, c, bytes) ==
    IF c = "H"
    THEN IF order = "<" THEN bytes[1] + 256 * bytes[2] ELSE 256 * bytes[1] + bytes[2]
    ELSE bytes[1]

RECURSIVE unpack_fields(_, _, _)
unpack_fields(order, f, p) ==
    IF f = <<>> THEN <<>>
    ELSE LET n == FieldSize(Head(f))
         IN <<unpack_field(order, Head(f), SubSeq(p, 1, n))>>
              \o unpack_fields(order, Tail(f), SubSeq(p, n + 1, Len(p)))

(* what struct.unpack_from would do: a longer buffer is accepted *)
struct_unpack_Prefix(fmt, p) ==
    IF Len(p) < calcsize(fmt) THEN Raise("struct.error")
    ELSE Ret(unpack_fields(fmt.order, fmt.fields, SubSeq(p, 1, calcsize(fmt))))

(* struct.unpack(fmt, buffer): the buffer must be exactly calcsize bytes *)
struct_unpack(fmt, p) ==
    IF Len(p) # calcsize(fmt) THEN Raise("struct.error")
    ELSE Ret(unpack_fields(fmt.order, fmt.fields, p))

(* StructDecoder.decode: without a format the bytes themselves are zipped;  *)
(* without keys the unpacked tuple is returned as it is.                    *)
struct_decode(d, p) ==
    LET fields == IF d.packet_format # NoFormat
                  THEN struct_unpack(d.packet_format, p) ELSE Ret(p)
    IN IF fields.tag = "raise" THEN fields
       ELSE LET values == [i \in 1..Len(fields.val) |-> IntVal(fields.val[i])]
            IN IF d.keys # <<>> THEN Dict(zip_dict(d.keys, values))
               ELSE [tag |-> "tuple", val |-> values, exc |-> ""]

(* Decoder.decode, by the decoder's class *)
decode(d, p) == IF d.kind = "Ordered" THEN ordered_decode(d, p) ELSE struct_decode(d, p)

----------------------------------------------------------------------------
(* Element objects.  One record shape for every class; `elements` is the    *)
(* ordered dict of a MonitorGroup, a sequence of [key, value] items whose   *)
(* values are references into the heap.                                     *)
MAX_MONITOR_WIDTH == 60

TextElement(element_id, text) ==
    [kind |-> "TextElement", element_id |-> element_id, text |-> text,
     current_value |-> 0, min_value |-> 0, max_value |-> 0, scale |-> 1,
     elements |-> <<>>]

RangeBarOfWidth(element_id, min_value, max_value, scale, width) ==
    [kind |-> "RangeBar", element_id |-> element_id, text |-> <<>>,
     current_value |-> (max_value + min_value) \div 2,
     min_value |-> min_value, max_value |-> max_value, scale |-> scale,
     elements |-> <<>>, width |-> width]

RangeBar(element_id, min_value, max_value, scale) ==
    RangeBarOfWidth(element_id, min_value, max_value, scale, MAX_MONITOR_WIDTH)

MonitorGroup(group_id, elems) ==
    [kind |-> "MonitorGroup", element_id |-> group_id, text |-> <<>>,
     current_value |-> 0, min_value |-> 0, max_value |-> 0, scale |-> 1,
     elements |-> elems]

NoCall == [op |-> "none", element_id |-> "", value |-> StrVal(<<>>),
           target |-> 0, raised |-> ""]
NoCycle == [line |-> <<>>, buffered |-> <<>>, decoded |-> <<>>, updates |-> <<>>,
            raised |-> ""]

(* str(value) and float(value) of a decoded value *)
RECURSIVE ToDecimal(_)
ToDecimal(n) == IF n < 10 THEN <<48 + n>> ELSE ToDecimal(n \div 10) \o <<48 + (n % 10)>>

str(v) ==
    IF v.type = "str" THEN v.str
    ELSE IF v.int < 0 THEN <<45>> \o ToDecimal(0 - v.int) ELSE ToDecimal(v.int)

RECURSIVE FromDecimal(_)
FromDecimal(s) ==
    IF s = <<>> THEN 0 ELSE 10 * FromDecimal(SubSeq(s, 1, Len(s) - 1)) + (s[Len(s)] - 48)

(* float(): surrounding whitespace is ignored; of the texts of this model   *)
(* only unsigned digit strings are numbers, anything else is a ValueError.  *)
float(v) ==
    IF v.type = "int" THEN Ret(v.int)
    ELSE LET t == strip(v.str)
         IN IF t # <<>> /\ \A i \in 1..Len(t) : t[i] \in 48..57
            THEN Ret(FromDecimal(t))
            ELSE Raise("ValueError")

Max(a, b) == IF a > b THEN a ELSE b

(* int(): of the texts of this model only unsigned digit strings are       *)
(* integers, anything else is a ValueError.                                 *)
int(v) ==
    IF v.type = "int" THEN Ret(v.int)
    ELSE LET t == strip(v.str)
         IN IF t # <<>> /\ \A i \in 1..Len(t) : t[i] \in 48..57
            THEN Ret(FromDecimal(t))
            ELSE Raise("ValueError")

(* bool() of a decoded value *)
bool(v) == IF v.type = "int" THEN v.int # 0 ELSE v.str # <<>>

----------------------------------------------------------------------------
(* The other element classes.  Each class has its own record shape; text   *)
(* (labels, log lines, renderings) is a sequence of character codes.       *)
FULL_BLOCK == 9608         \* the filled cell of a progress bar
LIGHT_SHADE == 9617        \* the empty cell of a progress bar
MARKER_TRACE == 124        \* "|"
RANGE_TRACE == 45          \* "-"
FORMAT_WIDTH == 32         \* format(n, "032b")

ProgressLabel == <<80, 114, 111, 103, 114, 101, 115, 115>>      \* "Progress"
RangeLabel == <<82, 97, 110, 103, 101>>                         \* "Range"
LampLabel == <<76, 97, 109, 112>>                               \* "Lamp"

ProgressBar(element_id, total_steps, width) ==
    [kind |-> "ProgressBar", element_id |-> element_id, total_steps |-> total_steps,
     current_step |-> 0, label |-> ProgressLabel, width |-> width,
     max_label_length |-> 10]

(* the rendering attributes of a RangeBar, at their defaults but the width *)
RangeBarLayout(width) ==
    [label |-> RangeLabel, width |-> width, max_label_length |-> 10,
     max_display_length |-> 6, marker_trace |-> MARKER_TRACE,
     range_trace |-> RANGE_TRACE, unit |-> <<>>, digits |-> 2]

LogMonitor(element_id, max_logs, width) ==
    [kind |-> "LogMonitor", element_id |-> element_id, max_logs |-> max_logs,
     logs |-> <<>>, timestamp |-> FALSE, border |-> FALSE, width |-> width]

Zeros(n) == [i \in 1..n |-> 48]

MachineState(element_id, states) ==
    [kind |-> "MachineState", element_id |-> element_id, states |-> states,
     state_binary |-> Zeros(Len(states))]

(* Table.data: one row of zeros per variable, each row a list of its own *)
Table(element_id, headers, variables) ==
    [kind |-> "Table", element_id |-> element_id, headers |-> headers,
     variables |-> variables,
     data |-> [var \in {variables[i] : i \in 1..Len(variables)} |->
                  [h \in 1..Len(headers) |-> IntVal(0)]],
     data_column_width |-> 6]

IndicatorLamp(element_id) ==
    [kind |-> "IndicatorLamp", element_id |-> element_id, label |-> LampLabel,
     state |-> FALSE]

----------------------------------------------------------------------------
(* Text operations of the Python runtime the renderings rely on            *)
Rep(c, n) == [i \in 1..n |-> c]                     \* c * n, empty for n <= 0
ljust(s, n) == s \o Rep(32, n - Len(s))
rjust(s, n) == Rep(32, n - Len(s)) \o s

(* str.center: of an odd margin the larger half goes left when the width   *)
(* is odd, right when it is even                                           *)
center(s, n) ==
    IF n <= Len(s) THEN s
    ELSE LET marg == n - Len(s)
             left == (marg \div 2) + (IF marg % 2 = 1 /\ n % 2 = 1 THEN 1 ELSE 0)
         IN Rep(32, left) \o s \o Rep(32, marg - left)

Abs(n) == IF n < 0 THEN 0 - n ELSE n
Sign(n) == IF n < 0 THEN <<45>> ELSE <<>>

(* int(a / b): the quotient truncated towards zero, b > 0 *)
Trunc(a, b) == IF a < 0 THEN 0 - ((0 - a) \div b) ELSE a \div b

(* a / b rounded to the nearest integer, b > 0 *)
Round(a, b) == IF a < 0 THEN 0 - ((2 * (0 - a) + b) \div (2 * b))
               ELSE (2 * a + b) \div (2 * b)

(* f"{x:.1f}" of x given in tenths; f"{n:.{digits}f}" of an integer n *)
Fixed1(tenths) ==
    Sign(tenths) \o ToDecimal(Abs(tenths) \div 10) \o <<46, 48 + (Abs(tenths) % 10)>>
FixedInt(n, digits) == Sign(n) \o ToDecimal(Abs(n)) \o <<46>> \o Rep(48, digits)

RECURSIVE JoinLines(_)
JoinLines(lines) ==
    IF lines = <<>> THEN <<>>
    ELSE IF Len(lines) = 1 THEN lines[1]
    ELSE lines[1] \o <<10>> \o JoinLines(Tail(lines))

(* format(n, "032b"): sign, then the binary digits zero-padded so that the *)
(* whole is at least 32 characters                                         *)
RECURSIVE ToBinary(_)
ToBinary(n) == IF n < 2 THEN <<48 + n>> ELSE ToBinary(n \div 2) \o <<48 + (n % 2)>>

format_032b(n) ==
    LET digits == ToBinary(Abs(n))
    IN Sign(n) \o Rep(48, FORMAT_WIDTH - Len(Sign(n)) - Len(digits)) \o digits

----------------------------------------------------------------------------
(* display() of each class: the string returned, or the exception raised   *)
text_display(o) == Ret(o.text)

progress_display(o) ==
    IF o.total_steps = 0 THEN Raise("ZeroDivisionError")
    ELSE LET display_value == Fixed1(Round(1000 * o.current_step, o.total_steps)) \o <<37>>
             bar_width == o.width - o.max_label_length - Len(display_value) - 6
             filled_length == Trunc(bar_width * o.current_step, o.total_steps)
             bar == Rep(FULL_BLOCK, filled_length)
                      \o Rep(LIGHT_SHADE, bar_width - filled_length)
         IN Ret(ljust(o.label, o.max_label_length) \o <<32, 91>> \o bar
                  \o <<93, 32>> \o display_value)

(* the marker position without its upper limit *)
range_bar_NoLimit(o, bar_width) ==
    LET marker_position ==
            Trunc(bar_width * (o.current_value - o.min_value),
                  o.max_value - o.min_value)
    IN Rep(RangeBarLayout(o.width).range_trace, marker_position)
         \o <<RangeBarLayout(o.width).marker_trace>>
         \o Rep(RangeBarLayout(o.width).range_trace, bar_width - marker_position - 1)

(* the bar of a RangeBar: the range trace with the marker in it *)
range_bar(o, bar_width) ==
    LET marker_position ==
            Min(Trunc(bar_width * (o.current_value - o.min_value),
                      o.max_value - o.min_value),
                bar_width - 1)
    IN Rep(RangeBarLayout(o.width).range_trace, marker_position)
         \o <<RangeBarLayout(o.width).marker_trace>>
         \o Rep(RangeBarLayout(o.width).range_trace, bar_width - marker_position - 1)

range_display(o) ==
    IF o.max_value = o.min_value THEN Raise("ZeroDivisionError")
    ELSE LET l == RangeBarLayout(o.width)
             numeric_value == rjust(FixedInt(o.current_value, l.digits),
                                    l.max_display_length)
             display_value == ljust(numeric_value \o <<32>> \o l.unit,
                                    l.max_display_length + Len(l.unit))
             bar_width == l.width - l.max_label_length - l.max_display_length - 13
         IN Ret(ljust(l.label, l.max_label_length) \o <<32, 91>>
                  \o range_bar(o, bar_width) \o <<93, 32>> \o display_value)

(* LogMonitor.display: every log left-justified, blank lines up to         *)
(* max_logs; only a str has ljust                                          *)
log_display(o) ==
    IF \E i \in 1..Len(o.logs) : o.logs[i].type # "str" THEN Raise("AttributeError")
    ELSE LET formatted_logs == [i \in 1..Len(o.logs) |-> ljust(o.logs[i].str, o.width - 4)]
             padding == [i \in 1..(o.max_logs - Len(o.logs)) |-> Rep(32, o.width - 4)]
         IN Ret(JoinLines(formatted_logs \o padding))

machine_display(o) == Ret(o.state_binary)

(* Table.display: the cells handed to tabulate, row by row; the grid that  *)
(* tabulate draws around them is reduced to "|" between cells              *)
truncate_or_pad(text, width) ==
    IF Len(text) > width THEN SubSeq(text, 1, width - 3) \o <<46, 46, 46>>
    ELSE center(text, width)

RECURSIVE JoinCells(_)
JoinCells(cells) ==
    IF cells = <<>> THEN <<>>
    ELSE IF Len(cells) = 1 THEN cells[1]
    ELSE cells[1] \o <<124>> \o JoinCells(Tail(cells))

format_row(o, left_cell, row) ==
    <<left_cell>> \o [i \in 1..Len(row) |-> truncate_or_pad(row[i], o.data_column_width)]

table_display(o) ==
    LET centered_headers ==
            [i \in 1..Len(o.headers) |-> truncate_or_pad(o.headers[i], o.data_column_width)]
        formatted_headers == format_row(o, <<>>, centered_headers)
        rows == [i \in 1..Len(o.variables) |->
                    format_row(o, o.variables[i],
                               [h \in 1..Len(o.headers) |-> str(o.data[o.variables[i]][h])])]
    IN Ret(JoinLines(<<JoinCells(formatted_headers)>>
                       \o [i \in 1..Len(rows) |-> JoinCells(rows[i])]))

(* IndicatorLamp.display: the dot in bold and in the colour of the state, *)
(* "32" for green (on) and "31" for red (off)                              *)
lamp_display(o) ==
    Ret(ljust(o.label \o <<58, 32>>
                \o <<27, 91, 49, 59, 51, IF o.state THEN 50 ELSE 49, 109>>
                \o <<9679>> \o <<27, 91, 48, 109>>,
              MAX_MONITOR_WIDTH))

(* element.display() by the element's class: the object after the call    *)
(* (display assigns no attribute) and what was returned                    *)
element_display_PadsLogs(o) ==
    IF o.kind = "LogMonitor"
    THEN [obj |-> [o EXCEPT !.logs = o.logs \o
                      [i \in 1..(o.max_logs - Len(o.logs)) |-> StrVal(<<>>)]],
          out |-> log_display(o)]
    ELSE [obj |-> o,
          out |-> IF o.kind = "TextElement" THEN text_display(o)
                  ELSE IF o.kind = "ProgressBar" THEN progress_display(o)
                  ELSE IF o.kind = "RangeBar" THEN range_display(o)
                  ELSE IF o.kind = "MachineState" THEN machine_display(o)
                  ELSE IF o.kind = "Table" THEN table_display(o)
                  ELSE lamp_display(o)]

element_display(o) ==
    [obj |-> o,
     out |-> IF o.kind = "TextElement" THEN text_display(o)
             ELSE IF o.kind = "ProgressBar" THEN progress_display(o)
             ELSE IF o.kind = "RangeBar" THEN range_display(o)
             ELSE IF o.kind = "LogMonitor" THEN log_display(o)
             ELSE IF o.kind = "MachineState" THEN machine_display(o)
             ELSE IF o.kind = "Table" THEN table_display(o)
             ELSE lamp_display(o)]

(* MonitorElement.add_border with border = True *)
MaxLen(lines) == CHOOSE n \in {Len(lines[i]) : i \in 1..Len(lines)} :
                     \A i \in 1..Len(lines) : Len(lines[i]) <= n

add_border(content, element_width) ==
    LET lines == split(content, 10)
        width == Min(MaxLen(lines) + 4, element_width)
        border_top == <<43>> \o Rep(45, width - 2) \o <<43>>
        bordered_content ==
            [i \in 1..Len(lines) |-> <<124, 32>> \o ljust(lines[i], width - 4) \o <<32, 124>>]
    IN JoinLines(<<border_top>> \o bordered_content \o <<border_top>>)

(* MonitorGroup.display: the children's renderings in order, joined by     *)
(* newlines; the groups of the model are those add_element_group builds,   *)
(* with border = True and the default width.  An exception of a child      *)
(* ends the rendering.                                                     *)
child_shown(done, r, d) ==
    IF d.out.tag = "raise"
    THEN [heap |-> [done.heap EXCEPT ![r] = d.obj],
          outs |-> done.outs, raised |-> d.out.exc]
    ELSE [heap |-> [done.heap EXCEPT ![r] = d.obj],
          outs |-> Append(done.outs, d.out.val), raised |-> ""]

child_next(done, r) ==
    IF done.raised # "" THEN done
    ELSE child_shown(done, r, element_display(done.heap[r]))

RECURSIVE display_children(_, _, _)
display_children(hp, items, i) ==
    IF i = 0 THEN [heap |-> hp, outs |-> <<>>, raised |-> ""]
    ELSE child_next(display_children(hp, items, i - 1), items[i].value)

bordered(c) ==
    [heap |-> c.heap,
     out |-> IF c.raised # "" THEN Raise(c.raised)
             ELSE Ret(add_border(JoinLines(c.outs), MAX_MONITOR_WIDTH))]

group_display(hp, g) ==
    bordered(display_children(hp, hp[g].elements, Len(hp[g].elements)))

displayed(hp, r, d) == [heap |-> [hp EXCEPT ![r] = d.obj], out |-> d.out]

(* display() of the object at reference r *)
display(hp, r) ==
    IF hp[r].kind = "MonitorGroup" THEN group_display(hp, r)
    ELSE displayed(hp, r, element_display(hp[r]))

(* update(value) of each class: the object after the call and the         *)
(* exception, if any.  The coercion comes before the assignment, so a      *)
(* value that fails it leaves the object as it was.                        *)

(* ProgressBar.update assigns current_step and then renders *)
progress_update(o, v) ==
    LET f == float(v)
    IN IF f.tag = "raise" THEN [obj |-> o, raised |-> f.exc]
       ELSE LET n == [o EXCEPT !.current_step = Min(f.val, o.total_steps)]
            IN [obj |-> n, raised |-> progress_display(n).exc]

(* the clamp of ProgressBar.update, which has no lower bound *)
range_update_NoLowerClamp(o, v) ==
    LET f == float(v)
    IN IF f.tag = "raise" THEN [obj |-> o, raised |-> f.exc]
       ELSE [obj |-> [o EXCEPT !.current_value = Min(f.val * o.scale, o.max_value)],
             raised |-> IF o.max_value = o.min_value
                        THEN "ZeroDivisionError" ELSE ""]

(* RangeBar.update assigns current_value and then renders, and the         *)
(* rendering divides by max_value - min_value.                             *)
range_update(o, v) ==
    LET f == float(v)
    IN IF f.tag = "raise" THEN [obj |-> o, raised |-> f.exc]
       ELSE [obj |-> [o EXCEPT !.current_value =
                          Max(o.min_value, Min(f.val * o.scale, o.max_value))],
             raised |-> IF o.max_value = o.min_value
                        THEN "ZeroDivisionError" ELSE ""]

(* pop() instead of pop(0): the newest entry is dropped *)
log_update_PopNewest(o, v) ==
    LET logs == Append(o.logs, v)
    IN [obj |-> [o EXCEPT !.logs = IF Len(logs) > o.max_logs
                                   THEN SubSeq(logs, 1, Len(logs) - 1) ELSE logs],
        raised |-> ""]

(* LogMonitor.update with timestamp = False: append, then pop(0) when the  *)
(* list is longer than max_logs                                            *)
log_update(o, v) ==
    LET logs == Append(o.logs, v)
    IN [obj |-> [o EXCEPT !.logs = IF Len(logs) > o.max_logs THEN Tail(logs) ELSE logs],
        raised |-> ""]

machine_update(o, v) ==
    LET n == int(v)
    IN IF n.tag = "raise" THEN [obj |-> o, raised |-> n.exc]
       ELSE [obj |-> [o EXCEPT !.state_binary = format_032b(n.val)], raised |-> ""]

lamp_update(o, v) == [obj |-> [o EXCEPT !.state = bool(v)], raised |-> ""]

(* element.update(value) by the element's class.  Table.update takes three *)
(* arguments, with one it is a TypeError; a MonitorGroup has the update of *)
(* MonitorElement.                                                         *)
element_update(o, v) ==
    IF o.kind = "TextElement"
    THEN [obj |-> [o EXCEPT !.text = str(v)], raised |-> ""]
    ELSE IF o.kind = "RangeBar" THEN range_update(o, v)
    ELSE IF o.kind = "ProgressBar" THEN progress_update(o, v)
    ELSE IF o.kind = "LogMonitor" THEN log_update(o, v)
    ELSE IF o.kind = "MachineState" THEN machine_update(o, v)
    ELSE IF o.kind = "IndicatorLamp" THEN lamp_update(o, v)
    ELSE IF o.kind = "Table" THEN [obj |-> o, raised |-> "TypeError"]
    ELSE [obj |-> o, raised |-> "NotImplementedError"]

(* every row gets the value: the rows are one shared list *)
table_update_SharedRow(o, var, header, value) ==
    IF \E h \in 1..Len(o.headers) : o.headers[h] = header
    THEN IF var \in DOMAIN o.data
         THEN LET header_index == CHOOSE h \in 1..Len(o.headers) :
                      o.headers[h] = header /\ \A k \in 1..(h - 1) : o.headers[k] # header
              IN [obj |-> [o EXCEPT !.data = [w \in DOMAIN o.data |->
                                     [o.data[w] EXCEPT ![header_index] = value]]],
                  raised |-> ""]
         ELSE [obj |-> o, raised |-> "KeyError"]
    ELSE [obj |-> o, raised |-> ""]

(* Table.update(var, header, value): headers.index gives the first column  *)
(* of that name; data[var] of an unknown variable is a KeyError            *)
table_update(o, var, header, value) ==
    IF \E h \in 1..Len(o.headers) : o.headers[h] = header
    THEN IF var \in DOMAIN o.data
         THEN LET header_index == CHOOSE h \in 1..Len(o.headers) :
                      o.headers[h] = header /\ \A k \in 1..(h - 1) : o.headers[k] # header
              IN [obj |-> [o EXCEPT !.data[var][header_index] = value], raised |-> ""]
         ELSE [obj |-> o, raised |-> "KeyError"]
    ELSE [obj |-> o, raised |-> ""]

(* MachineState.as_dict: states zipped with the binary string reversed;   *)
(* bool(int(bit)) of a sign character is a ValueError                      *)
as_dict(o) ==
    LET n == Min(Len(o.states), Len(o.state_binary))
        bit(i) == o.state_binary[Len(o.state_binary) + 1 - i]
    IN IF \E i \in 1..n : bit(i) \notin {48, 49}
       THEN Raise("ValueError")
       ELSE Dict(zip_dict(o.states, [i \in 1..n |-> bit(i) = 49]))

----------------------------------------------------------------------------
(* MonitorGroup *)
Qualified(group_id, local_id) == group_id \o "." \o local_id

(* deepcopy(elements): every value is copied to a fresh object; an object   *)
(* held under two keys is copied once (the memo).                           *)
RECURSIVE deepcopy_items(_, _, _)
deepcopy_items(hp, items, i) ==
    IF i = 0 THEN [heap |-> hp, items |-> <<>>]
    ELSE LET done == deepcopy_items(hp, items, i - 1)
             seen == {j \in 1..(i - 1) : items[j].value = items[i].value}
         IN IF seen # {}
            THEN [heap |-> done.heap,
                  items |-> Append(done.items,
                      [key |-> items[i].key,
                       value |-> done.items[CHOOSE j \in seen : TRUE].value])]
            ELSE [heap |-> Append(done.heap, hp[items[i].value]),
                  items |-> Append(done.items,
                      [key |-> items[i].key, value |-> Len(done.heap) + 1])]

(* no copy at all: the group would hold the objects it was given *)
no_copy(hp, items) == [heap |-> hp, items |-> items]

deepcopy(hp, items) == deepcopy_items(hp, items, Len(items))

(* MonitorGroup.construct_elements: copy, then prefix every key *)
construct_elements(hp, group_id, elems) ==
    LET c == deepcopy(hp, elems)
    IN [heap |-> c.heap,
        elements |-> [i \in 1..Len(c.items) |->
                        [key |-> Qualified(group_id, c.items[i].key),
                         value |-> c.items[i].value]]]

HasKey(items, k) == \E i \in 1..Len(items) : items[i].key = k
Lookup(items, k) == items[CHOOSE i \in 1..Len(items) : items[i].key = k].value

(* MonitorGroup.update_element *)
update_element(hp, g, element_id, v) ==
    IF HasKey(hp[g].elements, element_id)
    THEN LET r == Lookup(hp[g].elements, element_id)
             u == element_update(hp[r], v)
         IN [heap |-> [hp EXCEPT ![r] = u.obj], raised |-> u.raised, target |-> r]
    ELSE [heap |-> hp, raised |-> "", target |-> 0]

----------------------------------------------------------------------------
(* MonitorManager *)

(* add_element_group: the dict keyed "{group_id}.{element_id}" handed to    *)
(* MonitorGroup, whose constructor builds its children from it.             *)
add_element_group(els, hp, group_id, templates) ==
    LET group_elements ==
            zip_dict([i \in 1..Len(templates) |->
                         Qualified(group_id, hp[templates[i]].element_id)],
                     templates)
        c == construct_elements(hp, group_id, group_elements)
        group == MonitorGroup(group_id, c.elements)
    IN [heap |-> Append(c.heap, group),
        elements |-> Append(els, Len(c.heap) + 1)]

(* update: the scan from entry i on; `stop` is the `break` after a match *)
RECURSIVE update_scan(_, _, _, _, _, _)
update_scan(els, hp, element_id, v, i, stop) ==
    IF i > Len(els) THEN [heap |-> hp, raised |-> "", target |-> 0]
    ELSE LET e == hp[els[i]]
         IN IF e.kind = "MonitorGroup"
            THEN IF HasKey(e.elements, element_id)
                 THEN LET u == update_element(hp, els[i], element_id, v)
                      IN IF stop \/ u.raised # "" THEN u
                         ELSE update_scan(els, u.heap, element_id, v, i + 1, stop)
                 ELSE update_scan(els, hp, element_id, v, i + 1, stop)
            ELSE IF e.element_id = element_id
                 THEN LET u == element_update(e, v)
                          h == [hp EXCEPT ![els[i]] = u.obj]
                      IN IF stop \/ u.raised # ""
                         THEN [heap |-> h, raised |-> u.raised, target |-> els[i]]
                         ELSE update_scan(els, h, element_id, v, i + 1, stop)
                 ELSE update_scan(els, hp, element_id, v, i + 1, stop)

(* the loop without its `break`: every match is updated *)
update_NoBreak(els, hp, element_id, v) == update_scan(els, hp, element_id, v, 1, FALSE)

(* a miss that raises instead of falling through *)
update_MissRaises(els, hp, element_id, v) ==
    LET u == update_scan(els, hp, element_id, v, 1, TRUE)
    IN IF u.target = 0 /\ u.raised = "" THEN [u EXCEPT !.raised = "KeyError"] ELSE u

update(els, hp, element_id, v) == update_scan(els, hp, element_id, v, 1, TRUE)

(* display_all: the buffer is cleared, every entry's rendering is         *)
(* appended in order and the buffer is written out joined by newlines; an  *)
(* exception of a rendering leaves the method.                             *)
entry_shown(done, d) ==
    IF d.out.tag = "raise"
    THEN [heap |-> d.heap, buffer |-> done.buffer, raised |-> d.out.exc]
    ELSE [heap |-> d.heap, buffer |-> Append(done.buffer, d.out.val), raised |-> ""]

entry_next(els, done, i) ==
    IF done.raised # "" THEN done ELSE entry_shown(done, display(done.heap, els[i]))

RECURSIVE display_entries(_, _, _)
display_entries(els, hp, i) ==
    IF i = 0 THEN [heap |-> hp, buffer |-> <<>>, raised |-> ""]
    ELSE entry_next(els, display_entries(els, hp, i - 1), i)

flushed(b) ==
    [heap |-> b.heap,
     out |-> IF b.raised # "" THEN Raise(b.raised) ELSE Ret(JoinLines(b.buffer))]

display_all(els, hp) == flushed(display_entries(els, hp, Len(els)))

----------------------------------------------------------------------------
(* the loop without its try: the first exception of an update leaves it   *)
RECURSIVE process_items_NoTry(_, _, _, _)
process_items_NoTry(els, hp, items, i) ==
    IF i = 0 THEN [heap |-> hp, updates |-> <<>>, raised |-> ""]
    ELSE LET done == process_items_NoTry(els, hp, items, i - 1)
             u == update(els, done.heap, items[i].key, items[i].value)
         IN IF done.raised # "" THEN done
            ELSE [heap |-> u.heap,
                  updates |-> Append(done.updates,
                                     [element_id |-> items[i].key,
                                      value |-> items[i].value,
                                      raised |-> u.raised]),
                  raised |-> IF u.raised # "" THEN "update" ELSE ""]

(* UpdateServer.process_update: one Manager.update per item, in order; an  *)
(* exception of one update is caught and the next item is taken.           *)
RECURSIVE process_items(_, _, _, _)
process_items(els, hp, items, i) ==
    IF i = 0 THEN [heap |-> hp, updates |-> <<>>, raised |-> ""]
    ELSE LET done == process_items(els, hp, items, i - 1)
             u == update(els, done.heap, items[i].key, items[i].value)
         IN [heap |-> u.heap,
             updates |-> Append(done.updates,
                                [element_id |-> items[i].key,
                                 value |-> items[i].value,
                                 raised |-> u.raised]),
             raised |-> ""]

(* only a mapping has .items(); anything else is an AttributeError raised  *)
(* outside the per-item try                                                 *)
process_update(els, hp, data) ==
    IF data.tag = "dict"
    THEN process_items(els, hp, data.val, Len(data.val))
    ELSE [heap |-> hp, updates |-> <<>>, raised |-> "dispatch"]

(* Python truth of what validate or decode returned *)
Truthy(data) == data.tag \in {"value", "dict", "tuple"} /\ data.val # <<>>

dispatched(handed, p) ==
    [heap |-> p.heap, decoded |-> handed, updates |-> p.updates, raised |-> p.raised]

(* The body of the polling loop for one line read from the port: validate, *)
(* decode, dispatch, written as one operator per stage.  `raised` names    *)
(* the stage whose exception left the loop, `decoded` lists the payloads   *)
(* handed to the decoder.                                                  *)
after_decode(els, hp, handed, data) ==
    IF data.tag = "raise"
    THEN [heap |-> hp, decoded |-> handed, updates |-> <<>>, raised |-> "decode"]
    ELSE IF Truthy(data)
    THEN dispatched(handed, process_update(els, hp, data))
    ELSE [heap |-> hp, decoded |-> handed, updates |-> <<>>, raised |-> ""]

after_validate(d, els, hp, validated) ==
    IF validated.tag = "raise"
    THEN [heap |-> hp, decoded |-> <<>>, updates |-> <<>>, raised |-> "validate"]
    ELSE IF d.kind # "None" /\ Truthy(validated)
    THEN after_decode(els, hp, <<validated.val>>, decode(d, validated.val))
    ELSE after_decode(els, hp, <<>>, validated)

(* a rejected line handed on as it was read *)
PassRejected(checked, line) == IF checked.tag = "False" THEN Ret(line) ELSE checked

serve_line_ForwardRejected(v, d, els, hp, line) ==
    after_validate(d, els, hp,
        IF v.kind # "None" THEN PassRejected(validate(v, line), line) ELSE Ret(line))

serve_line(v, d, els, hp, line) ==
    after_validate(d, els, hp, IF v.kind # "None" THEN validate(v, line) ELSE Ret(line))

(* serial readline(): the bytes up to and including the first newline; on  *)
(* a port with a read timeout a line without newline ends where the data   *)
(* ends.                                                                    *)
HasNewline(buf) == \E i \in 1..Len(buf) : buf[i] = NL
FirstNewline(buf) == CHOOSE i \in 1..Len(buf) : buf[i] = NL /\ \A j \in 1..(i - 1) : buf[j] # NL
readline(buf) == IF HasNewline(buf) THEN SubSeq(buf, 1, FirstNewline(buf)) ELSE buf

----------------------------------------------------------------------------
(* Specification of the validator alone: any window validator, any frame.  *)
ValidatorBytes == {START_BYTE, END_BYTE, D1}

(* the objects of the transports' setup, absent *)
NoSerial == [kind |-> "None", port |-> "", baudrate |-> 0]
NoLoop == [now |-> 0, since |-> <<>>, delay |-> <<>>]
NoLogger == [kind |-> "None"]

IdleExt ==
    /\ serial_connection = NoSerial /\ devices = <<>> /\ log = <<>>
    /\ socket = <<>> /\ trace = <<>> /\ loop = NoLoop /\ csv = NoLogger

Idle ==
    /\ rx = <<>> /\ is_open = FALSE /\ pc = "init" /\ stop_cause = ""
    /\ elements = <<>> /\ heap = <<>> /\ last_call = NoCall /\ cycle = NoCycle
    /\ timeout = FALSE /\ writes = 0
    /\ IdleExt

InitValidator ==
    /\ validator \in {WindowValidator(ws, sb, eb) :
                        ws \in 1..MaxWindow, sb \in {START_BYTE, END_BYTE},
                        eb \in {START_BYTE, END_BYTE}}
    /\ decoder = NoDecoder
    /\ packet \in BoundedSeq(ValidatorBytes, MaxFrameLen)
    /\ result = NoResult
    /\ Idle

Validate ==
    /\ validator.kind = "Window"
    /\ result = NoResult
    /\ result' = validate(validator, packet)
    /\ UNCHANGED <<validator, decoder, packet, rx, is_open, pc, stop_cause,
                   elements, heap, last_call, cycle, timeout, writes>>
    /\ UNCHANGED ext

NextValidator == Validate

SpecValidator == InitValidator /\ [][NextValidator]_vars

(* The frames a window validator accepts, stated on the frame's bytes *)
WellFramed(v, p) ==
    /\ Len(p) = v.window_size
    /\ Len(p) >= 1
    /\ Head(p) = v.start_byte
    /\ p[Len(p)] = v.end_byte

----------------------------------------------------------------------------
(* Specification of OrderedDecoder alone: any key list, separator, payload *)
TextBytes == {D1, D2, COMMA, SP, BAD}
KeyLists == {<<"a">>, <<"a", "b">>, <<"a", "b", "c">>}

InitOrdered ==
    /\ validator = NoValidator
    /\ decoder \in {OrderedDecoder(k, sep) : k \in KeyLists, sep \in {COMMA, SP}}
    /\ packet \in BoundedSeq(TextBytes, MaxPayloadLen)
    /\ result = NoResult
    /\ Idle

DecodeOrdered ==
    /\ decoder.kind = "Ordered"
    /\ result = NoResult
    /\ result' = ordered_decode(decoder, packet)
    /\ UNCHANGED <<validator, decoder, packet, rx, is_open, pc, stop_cause,
                   elements, heap, last_call, cycle, timeout, writes>>
    /\ UNCHANGED ext

NextOrdered == DecodeOrdered

SpecOrdered == InitOrdered /\ [][NextOrdered]_vars

(* The text between the first and the last non-blank character *)
Trimmed(s) ==
    LET solid == {i \in 1..Len(s) : ~IsSpace(s[i])}
    IN IF solid = {} THEN <<>>
       ELSE SubSeq(s, CHOOSE i \in solid : \A j \in solid : i <= j,
                      CHOOSE i \in solid : \A j \in solid : i >= j)

RECURSIVE Join(_, _)
Join(fields, sep) ==
    IF Len(fields) = 0 THEN <<>>
    ELSE IF Len(fields) = 1 THEN fields[1]
    ELSE fields[1] \o <<sep>> \o Join(Tail(fields), sep)

IsText(p) == \A i \in 1..Len(p) : p[i] < 128

(* The decoded mapping is the split of `text`: key i carries field i, no    *)
(* field holds a separator, and the fields joined by the separator give     *)
(* back the text (up to the first dropped field).                           *)
PairsFieldsOf(text, d, m) ==
    LET nfields == Cardinality({i \in 1..Len(text) : text[i] = d.separator}) + 1
        n == Min(Len(d.keys), nfields)
        joined == Join([i \in 1..Len(m) |-> m[i].value.str], d.separator)
    IN /\ Len(m) = n
       /\ \A i \in 1..Len(m) :
             /\ m[i].key = d.keys[i]
             /\ m[i].value.type = "str"
             /\ \A j \in 1..Len(m[i].value.str) : m[i].value.str[j] # d.separator
       /\ IF nfields <= Len(d.keys)
          THEN joined = text
          ELSE /\ Len(text) > Len(joined)
               /\ SubSeq(text, 1, Len(joined) + 1) = joined \o <<d.separator>>

(* C9 as amended: for a UTF-8 payload, decode strips leading and trailing  *)
(* whitespace from the text and then splits it on the separator, pairing   *)
(* field i with keys[i]: surplus fields are dropped, keys beyond the       *)
(* fields are absent, and every value stays text.                          *)
C9_DecodeSplitsStrippedText ==
    (result # NoResult /\ decoder.kind = "Ordered" /\ IsText(packet)) =>
        /\ result.tag = "dict"
        /\ PairsFieldsOf(Trimmed(packet), decoder, result.val)

(* C9 as stated: the fields are those of the payload itself *)
C9_DecodeSplitsPayload ==
    (result # NoResult /\ decoder.kind = "Ordered" /\ IsText(packet)) =>
        /\ result.tag = "dict"
        /\ PairsFieldsOf(packet, decoder, result.val)

C9_Witness ==
    /\ decoder.kind = "Ordered"
    /\ decoder.keys = <<"a", "b", "c">>
    /\ packet = <<D1, COMMA, D2, SP>>
    /\ result.tag = "dict"
    /\ result.val = <<[key |-> "a", value |-> StrVal(<<D1>>)],
                      [key |-> "b", value |-> StrVal(<<D2>>)]>>

----------------------------------------------------------------------------
(* Specification of StructDecoder alone: any layout, key list, payload     *)
StructBytes == {0, 1, 255}
Formats == {Format(o, f) : o \in {"<", ">"},
                           f \in {<<"B">>, <<"H">>, <<"B", "B">>, <<"B", "H">>, <<"H", "B">>}}
                \cup {NoFormat}

InitStruct ==
    /\ validator = NoValidator
    /\ decoder \in {StructDecoder(k, f) : k \in KeyLists \cup {<<>>}, f \in Formats}
    /\ packet \in BoundedSeq(StructBytes, MaxPayloadLen)
    /\ result = NoResult
    /\ Idle

DecodeStruct ==
    /\ decoder.kind = "Struct"
    /\ result = NoResult
    /\ result' = struct_decode(decoder, packet)
    /\ UNCHANGED <<validator, decoder, packet, rx, is_open, pc, stop_cause,
                   elements, heap, last_call, cycle, timeout, writes>>
    /\ UNCHANGED ext

NextStruct == DecodeStruct

SpecStruct == InitStruct /\ [][NextStruct]_vars

(* The layout stated field by field: where field i starts and its bytes *)
RECURSIVE FieldOffset(_, _)
FieldOffset(fmt, i) ==
    IF i = 1 THEN 0 ELSE FieldOffset(fmt, i - 1) + FieldSize(fmt.fields[i - 1])

LayoutSize(fmt) == FieldOffset(fmt, Len(fmt.fields) + 1)

(* the bytes of n in a field of code c, by division *)
PackField(order, c, n) ==
    IF c = "H"
    THEN IF order = "<" THEN <<n % 256, n \div 256>> ELSE <<n \div 256, n % 256>>
    ELSE <<n>>

(* C10: a payload whose length differs from the layout's byte size fails   *)
(* with a decode error and gives no mapping; a payload of the right length *)
(* gives the unpacked fields zipped positionally against the keys.         *)
C10_StructDecodeContract ==
    (/\ result # NoResult /\ decoder.kind = "Struct"
     /\ decoder.packet_format # NoFormat /\ decoder.keys # <<>>) =>
        LET fmt == decoder.packet_format
            m == result.val
        IN IF Len(packet) # LayoutSize(fmt)
           THEN result.tag = "raise" /\ m = <<>>
           ELSE /\ result.tag = "dict"
                /\ Len(m) = Min(Len(decoder.keys), Len(fmt.fields))
                /\ \A i \in 1..Len(m) :
                      /\ m[i].key = decoder.keys[i]
                      /\ m[i].value.type = "int"
                      /\ PackField(fmt.order, fmt.fields[i], m[i].value.int)
                           = SubSeq(packet, FieldOffset(fmt, i) + 1,
                                    FieldOffset(fmt, i) + FieldSize(fmt.fields[i]))

C10_WitnessDecoded ==
    /\ decoder = StructDecoder(<<"a", "b">>, Format("<", <<"B", "H">>))
    /\ packet = <<1, 0, 1>>
    /\ result.tag = "dict"
    /\ result.val = <<[key |-> "a", value |-> IntVal(1)],
                      [key |-> "b", value |-> IntVal(256)]>>

----------------------------------------------------------------------------
(* Specification of the MonitorManager: elements and groups are added and  *)
(* updates are dispatched, in any order.                                   *)
Instances ==
    << RangeBar("velocity", 0, 100, 1),
       TextElement("torque", <<>>),
       TextElement("X.X.velocity", <<>>) >>

GroupIds == {"X", "Y"}
TemplateLists == {<<1>>, <<1, 2>>}
UpdateIds == {"velocity", "torque", "X.velocity", "X.X.velocity", "Y.Y.velocity", "nope"}
UpdateValues == {StrVal(<<53>>), StrVal(<<97>>)}     \* "5", "a"

InitManager ==
    /\ validator = NoValidator /\ decoder = NoDecoder
    /\ packet = <<>> /\ result = NoResult
    /\ rx = <<>> /\ is_open = FALSE /\ pc = "init" /\ stop_cause = ""
    /\ elements = <<>>
    /\ heap = Instances
    /\ last_call = NoCall /\ cycle = NoCycle /\ timeout = FALSE /\ writes = 0
    /\ IdleExt

AddElement ==
    \E r \in 1..Len(Instances) :
        /\ Len(elements) < MaxElements
        /\ elements' = Append(elements, r)
        /\ last_call' = [NoCall EXCEPT !.op = "add_element", !.target = r]
        /\ UNCHANGED <<validator, decoder, packet, result, rx, is_open, pc,
                       stop_cause, heap, cycle, timeout, writes>>
        /\ UNCHANGED ext

AddElementGroup ==
    \E group_id \in GroupIds, templates \in TemplateLists :
        /\ Len(elements) < MaxElements
        /\ LET a == add_element_group(elements, heap, group_id, templates)
           IN /\ elements' = a.elements
              /\ heap' = a.heap
              /\ last_call' = [NoCall EXCEPT !.op = "add_element_group",
                                             !.element_id = group_id,
                                             !.target = Len(a.heap)]
        /\ UNCHANGED <<validator, decoder, packet, result, rx, is_open, pc,
                       stop_cause, cycle, timeout, writes>>
        /\ UNCHANGED ext

Update ==
    \E element_id \in UpdateIds, v \in UpdateValues :
        /\ LET u == update(elements, heap, element_id, v)
           IN /\ heap' = u.heap
              /\ last_call' = [op |-> "update", element_id |-> element_id,
                               value |-> v, target |-> u.target, raised |-> u.raised]
        /\ UNCHANGED <<validator, decoder, packet, result, rx, is_open, pc,
                       stop_cause, elements, cycle, timeout, writes>>
        /\ UNCHANGED ext

NextManager == AddElement \/ AddElementGroup \/ Update

SpecManager == InitManager /\ [][NextManager]_vars

(* What the identifier addresses, stated on the manager's entries *)
IsGroup(hp, r) == hp[r].kind = "MonitorGroup"
Children(hp, g) == {hp[g].elements[i].value : i \in 1..Len(hp[g].elements)}
Namespace(hp, g) == {hp[g].elements[i].key : i \in 1..Len(hp[g].elements)}

Matches(hp, r, element_id) ==
    IF IsGroup(hp, r) THEN element_id \in Namespace(hp, r)
    ELSE hp[r].element_id = element_id

MatchingEntries(els, hp, element_id) ==
    {i \in 1..Len(els) : Matches(hp, els[i], element_id)}

(* the element the first matching entry stands for *)
FirstMatch(els, hp, element_id) ==
    LET i == CHOOSE k \in MatchingEntries(els, hp, element_id) :
                 \A j \in MatchingEntries(els, hp, element_id) : k <= j
    IN IF IsGroup(hp, els[i])
       THEN CHOOSE r \in Children(hp, els[i]) :
                \E n \in 1..Len(hp[els[i]].elements) :
                    /\ hp[els[i]].elements[n].key = element_id
                    /\ hp[els[i]].elements[n].value = r
       ELSE els[i]

(* C5: an update whose identifier matches no plain top-level element and   *)
(* no group namespace changes no element and raises nothing.               *)
C5_UnknownIdIsNoOp ==
    [][(last_call'.op = "update"
          /\ MatchingEntries(elements, heap, last_call'.element_id) = {})
        => (heap' = heap /\ elements' = elements /\ last_call'.raised = "")]_vars

C5_Witness ==
    /\ last_call.op = "update"
    /\ last_call.element_id = "X.velocity"
    /\ Len(elements) = 2
    /\ \E i \in 1..Len(elements) : IsGroup(heap, elements[i])
    /\ last_call.target = 0

(* C6: an update changes at most one element, the one the first matching   *)
(* top-level entry in insertion order stands for; every other object,      *)
(* the other children of the same group included, keeps its state.         *)
C6_FirstMatchOnly ==
    [][(last_call'.op = "update" /\ elements' = elements)
        => LET element_id == last_call'.element_id
               first == FirstMatch(elements, heap, element_id)
           IN /\ DOMAIN heap' = DOMAIN heap
              /\ IF MatchingEntries(elements, heap, element_id) = {}
                 THEN heap' = heap
                 ELSE /\ last_call'.target = first
                      /\ heap'[first] = element_update(heap[first], last_call'.value).obj
                      /\ \A r \in DOMAIN heap : r # first => heap'[r] = heap[r]]_vars

(* a collision: a plain element and a group child answer to the same id,   *)
(* the plain element was inserted first and took the update                *)
C6_Witness ==
    /\ last_call.op = "update"
    /\ last_call.element_id = "X.X.velocity"
    /\ Cardinality(MatchingEntries(elements, heap, "X.X.velocity")) = 2
    /\ last_call.target = 3
    /\ heap[3].text = <<53>>

(* C7: every child of a group built by add_element_group is registered     *)
(* under exactly "{group_id}.{local id}", the id Manager.update is given.  *)
C7_RegisteredUnderQualifiedId ==
    \A i \in 1..Len(elements) :
        IsGroup(heap, elements[i]) =>
            \A n \in 1..Len(heap[elements[i]].elements) :
                LET item == heap[elements[i]].elements[n]
                IN item.key = Qualified(heap[elements[i]].element_id,
                                        heap[item.value].element_id)

(* C8: an update that lands on a child of one group changes no child of    *)
(* any other group and none of the instances the groups were built from.   *)
GroupOf(els, hp, r) == {i \in 1..Len(els) : IsGroup(hp, els[i]) /\ r \in Children(hp, els[i])}

C8_GroupsIndependent ==
    [][(last_call'.op = "update" /\ last_call'.target # 0
          /\ GroupOf(elements, heap, last_call'.target) # {})
        => /\ \A r \in 1..Len(Instances) : heap'[r] = heap[r]
           /\ \A i \in 1..Len(elements) :
                 (IsGroup(heap, elements[i])
                    /\ i \notin GroupOf(elements, heap, last_call'.target))
                 => \A r \in Children(heap, elements[i]) : heap'[r] = heap[r]]_vars

(* groups X and Y were built from the same templates; X's child has been   *)
(* updated, Y's child and the template still hold the initial value        *)
C8_Witness ==
    /\ Len(elements) = 2
    /\ IsGroup(heap, elements[1]) /\ IsGroup(heap, elements[2])
    /\ heap[elements[1]].element_id = "X" /\ heap[elements[2]].element_id = "Y"
    /\ last_call.op = "update"
    /\ last_call.target \in Children(heap, elements[1])
    /\ heap[last_call.target].current_value = 5
    /\ \A r \in Children(heap, elements[2]) :
          heap[r].kind = "RangeBar" => heap[r].current_value = 50
    /\ heap[1].current_value = 50

----------------------------------------------------------------------------
(* Specification of the serial ingestion: a device writes frames to the    *)
(* port and SerialUpdateServer.start polls it, for every combination of    *)
(* validator, decoder and port timeout.                                    *)
FrameSize == 5
Payloads == {<<D1, COMMA, D2>>, <<D2, COMMA, D1>>, <<BAD, COMMA, D1>>, <<D1, COMMA, LA>>}
Frame(payload, end) == <<START_BYTE>> \o payload \o <<end>>

DeviceFrames ==
    {Frame(p, NL) : p \in Payloads}
        \cup {Frame(<<D1, COMMA, D2>>, END_BYTE), Frame(<<D2, COMMA, D1>>, END_BYTE)}
        \cup {<<D1, COMMA, D2, NL>>, <<START_BYTE, NL>>}

Validators ==
    {NoValidator, WindowValidator(FrameSize, START_BYTE, END_BYTE),
     WindowValidator(FrameSize, START_BYTE, NL)}
Decoders ==
    {NoDecoder, OrderedDecoder(<<"a", "b">>, COMMA),
     StructDecoder(<<"a", "b">>, Format("<", <<"B", "H">>))}

(* the element the key "b" of the decoders addresses *)
Targets ==
    {RangeBar("b", 0, 100, 1), ProgressBar("b", 10, MAX_MONITOR_WIDTH),
     MachineState("b", <<"s1", "s2", "s3">>)}

Init ==
    /\ validator \in Validators
    /\ decoder \in Decoders
    /\ timeout \in BOOLEAN
    /\ packet = <<>> /\ result = NoResult
    /\ rx = <<>> /\ is_open = TRUE /\ pc = "init" /\ stop_cause = ""
    /\ heap \in {<<TextElement("a", <<>>), b>> : b \in Targets}
    /\ elements = <<1, 2>>
    /\ last_call = NoCall /\ cycle = NoCycle /\ writes = 0
    /\ IdleExt

(* the finally clause of start(): serial_connection.close() *)
finally_close_Skipped(open) == open
finally_close(open) == FALSE

(* the device sends one more frame *)
DeviceWrite ==
    \E frame \in DeviceFrames :
        /\ is_open
        /\ writes < MaxWrites
        /\ rx' = rx \o frame
        /\ writes' = writes + 1
        /\ UNCHANGED <<validator, decoder, packet, result, is_open, pc, stop_cause,
                       elements, heap, last_call, cycle, timeout>>
        /\ UNCHANGED ext

(* start(): the assertions, then the loop is entered *)
Start ==
    /\ pc = "init"
    /\ is_open
    /\ pc' = "poll"
    /\ UNCHANGED <<validator, decoder, packet, result, rx, is_open, stop_cause,
                   elements, heap, last_call, cycle, timeout, writes>>
    /\ UNCHANGED ext

(* one iteration of `while True`: poll, read a line, serve it, sleep; an   *)
(* exception leaves the loop, is logged, and the connection is closed.     *)
(* Without a read timeout readline() does not return before a newline.     *)
PollCycle ==
    /\ pc = "poll"
    /\ IF rx = <<>>
       THEN /\ cycle' = NoCycle
            /\ UNCHANGED <<rx, heap, pc, stop_cause, is_open>>
       ELSE /\ HasNewline(rx) \/ timeout
            /\ \E s \in {serve_line(validator, decoder, elements, heap, readline(rx))} :
                  /\ rx' = SubSeq(rx, Len(readline(rx)) + 1, Len(rx))
                  /\ heap' = s.heap
                  /\ cycle' = [line |-> readline(rx), buffered |-> rx,
                               decoded |-> s.decoded, updates |-> s.updates,
                               raised |-> s.raised]
                  /\ IF s.raised # ""
                     THEN /\ pc' = "stopped" /\ stop_cause' = s.raised
                          /\ is_open' = finally_close(is_open)
                     ELSE UNCHANGED <<pc, stop_cause, is_open>>
    /\ UNCHANGED <<validator, decoder, packet, result, elements, last_call,
                   timeout, writes>>
    /\ UNCHANGED ext

(* in_waiting or readline() raises (the device is gone): the exception     *)
(* leaves the loop like any other, is logged, and the connection is        *)
(* closed; start() returns.  reconnect() is called from nowhere.           *)
ConnectionLost ==
    /\ pc = "poll"
    /\ pc' = "stopped"
    /\ stop_cause' = "io"
    /\ is_open' = finally_close(is_open)
    /\ UNCHANGED <<validator, decoder, packet, result, rx, elements, heap,
                   last_call, cycle, timeout, writes>>
    /\ UNCHANGED ext

(* the task running start() is cancelled while it sleeps: CancelledError  *)
(* is no Exception, it passes the except clause; the finally clause runs   *)
(* and start() ends with the CancelledError                                *)
Cancelled ==
    /\ pc = "poll"
    /\ pc' = "stopped"
    /\ stop_cause' = "cancelled"
    /\ is_open' = finally_close(is_open)
    /\ UNCHANGED <<validator, decoder, packet, result, rx, elements, heap,
                   last_call, cycle, timeout, writes>>
    /\ UNCHANGED ext

Next == DeviceWrite \/ Start \/ PollCycle \/ ConnectionLost \/ Cancelled

Spec == Init /\ [][Next]_vars

(* C2: with a validator configured, a line the validator rejects is never  *)
(* forwarded: the decoder is not called on it and no Manager.update is     *)
(* issued for it, in any polling cycle.                                    *)
C2_RejectedNeverForwarded ==
    (validator.kind = "Window" /\ cycle.line # <<>>
        /\ ~WellFramed(validator, cycle.line))
    => (cycle.decoded = <<>> /\ cycle.updates = <<>>)

C2_Witness ==
    /\ validator.kind = "Window"
    /\ decoder.kind = "Ordered"
    /\ cycle.line = <<START_BYTE, NL>>
    /\ cycle.decoded = <<>>
    /\ cycle.updates = <<>>
    /\ pc = "poll"

(* the values a frame carries, as the configured decoder reads them *)
ValuesOf(frame) ==
    LET data == decode(decoder, SubSeq(frame, 2, Len(frame) - 1))
    IN IF data.tag = "dict"
       THEN [i \in 1..Len(data.val) |->
                [element_id |-> data.val[i].key, value |-> data.val[i].value]]
       ELSE <<>>

Dispatched == [i \in 1..Len(cycle.updates) |->
                  [element_id |-> cycle.updates[i].element_id,
                   value |-> cycle.updates[i].value]]

TwoValidFrames(buf) ==
    /\ validator.kind = "Window"
    /\ Len(buf) = 2 * validator.window_size
    /\ WellFramed(validator, SubSeq(buf, 1, validator.window_size))
    /\ WellFramed(validator, SubSeq(buf, validator.window_size + 1, Len(buf)))

(* C3: when the data buffered at a read holds two back-to-back complete    *)
(* valid frames, the cycle dispatches the values of the second frame and   *)
(* no others.                                                              *)
C3_FreshestFrameOnly ==
    (decoder.kind # "None" /\ cycle.line # <<>> /\ TwoValidFrames(cycle.buffered))
    => Dispatched = ValuesOf(SubSeq(cycle.buffered, validator.window_size + 1,
                                    Len(cycle.buffered)))

(* C4: with a decoder configured, an error in validating, decoding or     *)
(* dispatching one frame never ends the polling loop: the frame is         *)
(* dropped and the loop goes on to the next cycle.                         *)
C4_BadFrameNeverEndsLoop ==
    decoder.kind # "None"
    => ~(pc = "stopped" /\ stop_cause \in {"validate", "decode", "dispatch"})

----------------------------------------------------------------------------
(* Specification of the elements: one element, or one group of two, is    *)
(* constructed, then updated and rendered in any order.                    *)
MaxLogs == 2

Col1 == <<67, 49>>        \* "C1"
Col2 == <<67, 50>>        \* "C2"
Var1 == <<86, 49>>        \* "V1"
Var2 == <<86, 50>>        \* "V2"
Other == <<63>>           \* "?", neither a header nor a variable

Single(o) == [heap |-> <<o>>, elements |-> <<1>>]

ElementConfigs ==
    {Single(ProgressBar("p", total_steps, MAX_MONITOR_WIDTH)) : total_steps \in {4, 10}}
    \cup {Single(RangeBarOfWidth("r", range[1], range[2], scale, width)) :
             range \in {<<0, 100>>, <<-10, 10>>, <<5, 5>>},
             scale \in {1, 2}, width \in {40, MAX_MONITOR_WIDTH}}
    \cup {Single(LogMonitor("l", max_logs, MAX_MONITOR_WIDTH)) : max_logs \in 0..MaxLogs}
    \cup {Single(MachineState("m", states)) : states \in {<<>>, <<"s1", "s2", "s3">>}}
    \cup {Single(Table("t", <<Col1, Col2>>, <<Var1, Var2>>)),
          Single(IndicatorLamp("lamp")),
          Single(TextElement("x", <<>>))}
    \cup {[heap |-> a.heap, elements |-> a.elements] :
             a \in {add_element_group(<<>>, <<RangeBar("velocity", 0, 100, 1),
                                              LogMonitor("log", 1, MAX_MONITOR_WIDTH)>>,
                                      "X", <<1, 2>>)}}

ElementValues ==
    {IntVal(-5), IntVal(5), IntVal(15), IntVal(150), StrVal(<<97>>), StrVal(<<55>>)}

ElementCall(op, target, v, var, header, raised) ==
    [op |-> op, target |-> target, value |-> v, var |-> var, header |-> header,
     raised |-> raised]

InitElements ==
    /\ validator = NoValidator /\ decoder = NoDecoder
    /\ packet = <<>> /\ result = NoResult
    /\ rx = <<>> /\ is_open = FALSE /\ pc = "init" /\ stop_cause = ""
    /\ \E c \in ElementConfigs : heap = c.heap /\ elements = c.elements
    /\ last_call = ElementCall("none", 0, StrVal(<<>>), <<>>, <<>>, "")
    /\ cycle = NoCycle /\ timeout = FALSE /\ writes = 0
    /\ IdleExt

(* element.update(value), called on the element itself *)
ElementUpdate ==
    \E r \in DOMAIN heap, v \in ElementValues :
        /\ heap[r].kind # "MonitorGroup"
        /\ LET u == element_update(heap[r], v)
           IN /\ heap' = [heap EXCEPT ![r] = u.obj]
              /\ last_call' = ElementCall("update", r, v, <<>>, <<>>, u.raised)
        /\ result' = NoResult
        /\ UNCHANGED <<validator, decoder, packet, rx, is_open, pc, stop_cause,
                       elements, cycle, timeout, writes>>
        /\ UNCHANGED ext

(* table.update(var, header, value) *)
TableUpdate ==
    \E r \in DOMAIN heap, var \in {Var1, Var2, Other}, header \in {Col1, Col2, Other},
       v \in {IntVal(5), StrVal(<<97>>)} :
        /\ heap[r].kind = "Table"
        /\ LET u == table_update(heap[r], var, header, v)
           IN /\ heap' = [heap EXCEPT ![r] = u.obj]
              /\ last_call' = ElementCall("table_update", r, v, var, header, u.raised)
        /\ result' = NoResult
        /\ UNCHANGED <<validator, decoder, packet, rx, is_open, pc, stop_cause,
                       elements, cycle, timeout, writes>>
        /\ UNCHANGED ext

(* element.display(), of an element or of a group *)
Display ==
    \E r \in DOMAIN heap :
        /\ LET d == display(heap, r)
           IN /\ heap' = d.heap
              /\ result' = d.out
        /\ last_call' = ElementCall("display", r, StrVal(<<>>), <<>>, <<>>, "")
        /\ UNCHANGED <<validator, decoder, packet, rx, is_open, pc, stop_cause,
                       elements, cycle, timeout, writes>>
        /\ UNCHANGED ext

(* manager.display_all() *)
DisplayAll ==
    /\ LET d == display_all(elements, heap)
       IN /\ heap' = d.heap
          /\ result' = d.out
    /\ last_call' = ElementCall("display_all", 0, StrVal(<<>>), <<>>, <<>>, "")
    /\ UNCHANGED <<validator, decoder, packet, rx, is_open, pc, stop_cause,
                   elements, cycle, timeout, writes>>
    /\ UNCHANGED ext

(* machine_state.as_dict() *)
AsDict ==
    \E r \in DOMAIN heap :
        /\ heap[r].kind = "MachineState"
        /\ result' = as_dict(heap[r])
        /\ last_call' = ElementCall("as_dict", r, StrVal(<<>>), <<>>, <<>>, "")
        /\ UNCHANGED <<validator, decoder, packet, rx, is_open, pc, stop_cause,
                       elements, heap, cycle, timeout, writes>>
        /\ UNCHANGED ext

NextElements == ElementUpdate \/ TableUpdate \/ Display \/ DisplayAll \/ AsDict

SpecElements == InitElements /\ [][NextElements]_vars

(* C11: the current_step of a ProgressBar is clamped to [0, total_steps]:  *)
(* after any sequence of updates 0 <= current_step <= total_steps.         *)
C11_ProgressClamped ==
    \A r \in DOMAIN heap :
        heap[r].kind = "ProgressBar" =>
            /\ 0 <= heap[r].current_step
            /\ heap[r].current_step <= heap[r].total_steps

(* The point of [lo, hi] nearest to x *)
Nearest(x, lo, hi) == IF x < lo THEN lo ELSE IF x > hi THEN hi ELSE x

IsNumber(v) == v.type = "int" \/ (v.str # <<>> /\ \A i \in 1..Len(v.str) : v.str[i] \in 48..57)
NumberOf(v) == IF v.type = "int" THEN v.int ELSE FromDecimal(v.str)

(* C12: the current_value of a RangeBar always lies in [min_value,         *)
(* max_value]: it starts at the midpoint, and an update with the number v  *)
(* sets it to v * scale clamped to [min_value, max_value].                 *)
C12_RangeClamped ==
    /\ \A r \in DOMAIN heap :
          heap[r].kind = "RangeBar" =>
              /\ heap[r].min_value <= heap[r].current_value
              /\ heap[r].current_value <= heap[r].max_value
    /\ (last_call.op = "none") =>
          \A r \in DOMAIN heap :
              heap[r].kind = "RangeBar" =>
                  2 * heap[r].current_value = heap[r].min_value + heap[r].max_value
    /\ (last_call.op = "update" /\ heap[last_call.target].kind = "RangeBar"
          /\ IsNumber(last_call.value)) =>
          LET o == heap[last_call.target]
          IN o.current_value =
                 Nearest(NumberOf(last_call.value) * o.scale, o.min_value, o.max_value)

C12_Witness ==
    /\ last_call.op = "update"
    /\ heap[last_call.target].kind = "RangeBar"
    /\ last_call.value = IntVal(-5)
    /\ heap[last_call.target].scale = 2
    /\ heap[last_call.target].min_value = 0
    /\ heap[last_call.target].current_value = 0

(* The bar of a rendered RangeBar: the cells between "[" and "]"; the bar  *)
(* is as wide as the element less the label (10), the value (6) and 13.    *)
BarWidth(o) == o.width - 29
BarOf(o, text) == SubSeq(text, 13, 12 + BarWidth(o))
MarkerIndex(o) ==
    Min((BarWidth(o) * (o.current_value - o.min_value)) \div (o.max_value - o.min_value),
        BarWidth(o) - 1)

C14_DegenerateRangeGuarded ==
    \A r \in DOMAIN heap :
        (heap[r].kind = "RangeBar" /\ heap[r].max_value = heap[r].min_value) =>
            /\ (last_call.op = "display" /\ last_call.target = r) => result.tag = "value"
            /\ (last_call.op = "update" /\ last_call.target = r)
                   => last_call.raised # "ZeroDivisionError"

(* text t occurs in text s *)
Appears(t, s) == \E i \in 1..(Len(s) - Len(t) + 1) : SubSeq(s, i, i + Len(t) - 1) = t

AllText(logs) == \A i \in 1..Len(logs) : logs[i].type = "str"

(* the last k entries of a list *)
LastOf(list, k) == SubSeq(list, Len(list) - k + 1, Len(list))

(* a step in which update(value) is called on a log monitor *)
LogUpdateStep ==
    /\ last_call'.op = "update"
    /\ last_call'.target \in DOMAIN heap
    /\ heap[last_call'.target].kind = "LogMonitor"

(* the entry an update evicts: the oldest one of a full log monitor *)
Evicts == Len(heap[last_call'.target].logs) = heap[last_call'.target].max_logs
            /\ heap[last_call'.target].max_logs >= 1

(* The log monitor keeps the last max_logs entries in arrival order: an    *)
(* update appends the entry and, beyond capacity, drops the oldest one.    *)
BoundedFifo ==
    LogUpdateStep =>
        LET o == heap[last_call'.target]
            arrived == Append(o.logs, last_call'.value)
        IN /\ Len(heap'[last_call'.target].logs) <= o.max_logs
           /\ heap'[last_call'.target].logs
                  = LastOf(arrived, Min(Len(arrived), o.max_logs))

BitOf(n, i) == (n \div (2 ^ i)) % 2 = 1

C16_FixedWidthBinary ==
    /\ \A r \in DOMAIN heap :
          heap[r].kind = "MachineState" =>
              /\ Len(machine_display(heap[r]).val) = FORMAT_WIDTH
              /\ \A i \in 1..Len(heap[r].state_binary) : heap[r].state_binary[i] \in {48, 49}
    /\ (last_call.op = "update" /\ heap[last_call.target].kind = "MachineState"
          /\ IsNumber(last_call.value)) =>
          LET o == heap[last_call.target]
              d == as_dict(o)
          IN /\ d.tag = "dict"
             /\ Len(d.val) = Len(o.states)
             /\ \A i \in 1..Len(d.val) :
                   /\ d.val[i].key = o.states[i]
                   /\ d.val[i].value = BitOf(NumberOf(last_call.value), i - 1)

(* C17: Table.update(var, header, value) with a known header sets exactly  *)
(* the cell (var, header) and leaves every other cell unchanged; with an   *)
(* unknown header no cell changes and nothing is raised.  (With a known    *)
(* header and a variable that is not a row, a KeyError and no change.)     *)
ColumnsOf(o, header) == {h \in 1..Len(o.headers) : o.headers[h] = header}

C17_TableUpdateOneCell ==
    [][last_call'.op = "table_update" =>
          LET r == last_call'.target
              o == heap[r]
              n == heap'[r]
              cols == ColumnsOf(o, last_call'.header)
          IN /\ \A q \in DOMAIN heap : q # r => heap'[q] = heap[q]
             /\ DOMAIN n.data = DOMAIN o.data
             /\ n.headers = o.headers /\ n.variables = o.variables
             /\ IF cols = {}
                THEN n.data = o.data /\ last_call'.raised = ""
                ELSE IF last_call'.var \notin DOMAIN o.data
                THEN n.data = o.data /\ last_call'.raised = "KeyError"
                ELSE /\ last_call'.raised = ""
                     /\ \A var \in DOMAIN o.data : \A h \in 1..Len(o.headers) :
                           n.data[var][h] =
                               IF var = last_call'.var /\ h \in cols
                               THEN last_call'.value ELSE o.data[var][h]]_vars

C17_Witness ==
    /\ last_call.op = "table_update"
    /\ last_call.var = Var1 /\ last_call.header = Col2
    /\ heap[last_call.target].data[Var1] = <<IntVal(0), IntVal(5)>>
    /\ heap[last_call.target].data[Var2] = <<IntVal(0), IntVal(0)>>

(* C18: display() is pure, for every element class, for a group and for    *)
(* the manager's display_all: a rendering changes no element, and          *)
(* rendering again with no update in between returns the same string.      *)
C18_DisplayIsPure ==
    [][last_call'.op \in {"display", "display_all"} =>
          /\ heap' = heap
          /\ elements' = elements
          /\ (last_call.op = last_call'.op /\ last_call.target = last_call'.target)
                => result' = result]_vars

(* a log monitor with room left has been rendered: its one entry and the   *)
(* blank line that fills it up                                             *)
C18_Witness ==
    /\ last_call.op = "display"
    /\ heap[last_call.target].kind = "LogMonitor"
    /\ heap[last_call.target].max_logs = 2
    /\ Len(heap[last_call.target].logs) = 1
    /\ result.tag = "value"
    /\ Len(result.val) = 2 * (MAX_MONITOR_WIDTH - 4) + 1

(* C19: when a dispatched value fails the coercion of the element it is   *)
(* for (a text that is no number sent to a ProgressBar, RangeBar or        *)
(* MachineState), the error does not leave process_update and the element  *)
(* keeps the value it had.                                                 *)
C19_FailedCoercionKeepsValue ==
    [][Len(rx') < Len(rx) =>
          \A i \in 1..Len(cycle'.updates) :
              cycle'.updates[i].raised = "ValueError" =>
                  /\ cycle'.raised = ""
                  /\ pc' = "poll"
                  /\ \A r \in DOMAIN heap :
                        heap[r].element_id = cycle'.updates[i].element_id
                            => heap'[r] = heap[r]]_vars

(* "1,a" was dispatched: "a" took the 1, "b" refused the "a", the loop     *)
(* goes on                                                                 *)
C19_Witness ==
    /\ pc = "poll"
    /\ Len(cycle.updates) = 2
    /\ cycle.updates[2].element_id = "b"
    /\ cycle.updates[2].value = StrVal(<<LA>>)
    /\ cycle.updates[2].raised = "ValueError"
    /\ heap[1].text = <<D1>>
    /\ heap[2].kind = "MachineState"
    /\ heap[2].state_binary = Zeros(3)

(* C20: an I/O error while polling or reading the serial connection does  *)
(* not end the ingestion: the loop is never left because of it.            *)
C20_ConnectionLostKeepsRunning ==
    ~(pc = "stopped" /\ stop_cause = "io")

----------------------------------------------------------------------------
(* The serial transport's setup: SerialUpdateServer.reconnect and          *)
(* SerialUpdateServer.__init__ with detect_devices.                        *)
(*                                                                         *)
(* `devices` is the machine: the device paths that exist, in glob order,   *)
(* each with whether serial.Serial can open it now.  A Serial object       *)
(* keeps the port and baudrate it was built with; open() uses them.        *)
MaxTime == 3
Ports == {"/dev/ttyUSB0", "/dev/ttyUSB1"}
Baudrates == {9600, 115200}
Delays == 0..2

Serial(port, baudrate) == [kind |-> "Serial", port |-> port, baudrate |-> baudrate]
Device(path, opens) == [path |-> path, opens |-> opens]
LogRecord(level, about) == [level |-> level, about |-> about]

(* serial.Serial.open(): succeeds when the port exists and can be opened *)
can_open(devs, port) == \E i \in 1..Len(devs) : devs[i].path = port /\ devs[i].opens

(* asyncio.sleep(delay) of task t, and whether the loop may resume t *)
asyncio_sleep(lp, t, delay) ==
    [lp EXCEPT !.since = [lp.since EXCEPT ![t] = lp.now],
               !.delay = [lp.delay EXCEPT ![t] = delay]]
awake(lp, t) == lp.now >= lp.since[t] + lp.delay[t]

(* reconnect(), lines 139-143: open() inside try/except *)
reconnect_open_NoTry(conn, devs) ==
    IF can_open(devs, conn.port)
    THEN [is_open |-> TRUE, logged |-> <<LogRecord("info", "reconnect")>>, raised |-> ""]
    ELSE [is_open |-> FALSE, logged |-> <<>>, raised |-> "SerialException"]
reconnect_open(conn, devs) ==
    IF can_open(devs, conn.port)
    THEN [is_open |-> TRUE, logged |-> <<LogRecord("info", "reconnect")>>, raised |-> ""]
    ELSE [is_open |-> FALSE, logged |-> <<LogRecord("error", "reconnect")>>, raised |-> ""]

InitReconnect ==
    /\ validator = NoValidator /\ decoder = NoDecoder
    /\ packet = <<>> /\ result = NoResult
    /\ rx = <<>> /\ pc = "init" /\ stop_cause = ""
    /\ elements = <<>> /\ heap = <<>> /\ last_call = NoCall /\ cycle = NoCycle
    /\ timeout = FALSE /\ writes = 0
    /\ is_open \in BOOLEAN
    /\ serial_connection \in {Serial(p, b) : p \in Ports, b \in Baudrates}
    /\ devices \in {<<Device("/dev/ttyUSB0", o)>> : o \in BOOLEAN}
    /\ loop = [now |-> 0, since |-> [t \in {"reconnect"} |-> 0],
               delay |-> [t \in {"reconnect"} |-> 0]]
    /\ log = <<>> /\ socket = <<>> /\ trace = <<>> /\ csv = NoLogger

Frame21 ==
    UNCHANGED <<validator, decoder, packet, result, rx, elements, heap, last_call,
                cycle, timeout, writes, socket, trace, csv>>

(* reconnect(delay) up to its await: close(), then sleep *)
ReconnectClose ==
    \E delay \in Delays :
        /\ pc = "init"
        /\ is_open' = FALSE
        /\ loop' = asyncio_sleep(loop, "reconnect", delay)
        /\ pc' = "sleeping"
        /\ UNCHANGED <<stop_cause, serial_connection, devices, log>>
        /\ Frame21

(* reconnect() after its await: open(), logged either way *)
ReconnectOpen ==
    /\ pc = "sleeping"
    /\ awake(loop, "reconnect")
    /\ \E r \in {reconnect_open(serial_connection, devices)} :
          /\ is_open' = r.is_open
          /\ log' = log \o r.logged
          /\ stop_cause' = r.raised
          /\ pc' = IF r.raised = "" THEN "returned" ELSE "raised"
    /\ UNCHANGED <<serial_connection, devices, loop>>
    /\ Frame21

(* time passes on the event loop's clock *)
Tick ==
    /\ loop.now < MaxTime
    /\ loop' = [loop EXCEPT !.now = @ + 1]
    /\ UNCHANGED <<is_open, pc, stop_cause, serial_connection, devices, log>>
    /\ Frame21

(* the device is unplugged or plugged in *)
Replug ==
    /\ devices' = [i \in 1..Len(devices) |-> Device(devices[i].path, ~devices[i].opens)]
    /\ UNCHANGED <<is_open, pc, stop_cause, serial_connection, loop, log>>
    /\ Frame21

NextReconnect == ReconnectClose \/ ReconnectOpen \/ Tick \/ Replug

SpecReconnect == InitReconnect /\ [][NextReconnect]_vars

(* C21: reconnect(delay) closes the connection before anything else, does *)
(* not reopen before `delay` has passed, reopens the same Serial object    *)
(* (same port and baudrate), and when open() fails the error is logged,    *)
(* nothing is raised and the connection is left closed.                    *)
C21_ReconnectSequence ==
    [][/\ serial_connection' = serial_connection
       /\ (pc = "init" /\ pc' # "init") => (pc' = "sleeping" /\ ~is_open')
       /\ pc' = "sleeping" => ~is_open'
       /\ (pc = "sleeping" /\ pc' # "sleeping") =>
             /\ loop.now - loop.since["reconnect"] >= loop.delay["reconnect"]
             /\ pc' = "returned"
             /\ stop_cause' = ""
             /\ is_open' = can_open(devices, serial_connection.port)
             /\ Len(log') = Len(log) + 1
             /\ log'[Len(log')].level = IF is_open' THEN "info" ELSE "error"]_vars

(* reconnect(2) on an open connection found the port gone: it returned     *)
(* with the error logged and the connection closed                         *)
C21_Witness ==
    /\ pc = "returned"
    /\ loop.delay["reconnect"] = 2
    /\ ~is_open
    /\ log = <<LogRecord("error", "reconnect")>>

----------------------------------------------------------------------------
(* SerialUpdateServer(manager, detect_devices=True): discovery, then the   *)
(* rest of __init__.                                                       *)
MaxDevices == 3
DefaultBaudrate == 9600
DevicePaths == {"/dev/tty.usbserial", "/dev/tty.usbmodem", "/dev/ttyS0"}

(* re.search("usb", path) *)
matches_usb(path) == path \in {"/dev/tty.usbserial", "/dev/tty.usbmodem"}

(* find_devices: the paths glob lists that contain the search pattern *)
find_devices(devs) == SelectSeq(devs, LAMBDA d : matches_usb(d.path))

(* the for loop of detect_devices over candidates i..: the first Serial    *)
(* that opens is returned, a failure is logged; None when the loop ends    *)
RECURSIVE open_first(_, _, _, _)
open_first(cands, i, baudrate, logged) ==
    IF i > Len(cands)
    THEN [conn |-> NoSerial, logged |-> logged]
    ELSE IF cands[i].opens
         THEN [conn |-> Serial(cands[i].path, baudrate), logged |-> logged]
         ELSE open_first(cands, i + 1, baudrate,
                         Append(logged, LogRecord("error", cands[i].path)))

detect_devices(devs, baudrate) == open_first(find_devices(devs), 1, baudrate, <<>>)

(* __init__ with detect_devices: line 78 reads .port of what discovery     *)
(* returned                                                                *)
construct(devs, baudrate) ==
    LET d == detect_devices(devs, baudrate)
    IN  [serial_connection |-> d.conn, logged |-> d.logged,
         raised |-> IF d.conn = NoSerial THEN "AttributeError" ELSE ""]

DeviceLists ==
    {ds \in BoundedSeq({Device(p, o) : p \in DevicePaths, o \in BOOLEAN}, MaxDevices) :
        \A i, j \in 1..Len(ds) : i # j => ds[i].path # ds[j].path}

InitDiscovery ==
    /\ validator = NoValidator /\ decoder = NoDecoder
    /\ packet = <<>> /\ result = NoResult
    /\ rx = <<>> /\ pc = "init" /\ stop_cause = "" /\ is_open = FALSE
    /\ elements = <<>> /\ heap = <<>> /\ last_call = NoCall /\ cycle = NoCycle
    /\ timeout = FALSE /\ writes = 0
    /\ serial_connection = NoSerial
    /\ devices \in DeviceLists
    /\ loop = NoLoop /\ log = <<>> /\ socket = <<>> /\ trace = <<>> /\ csv = NoLogger

(* the constructor, from the call to its return or its exception *)
Construct ==
    /\ pc = "init"
    /\ \E c \in {construct(devices, DefaultBaudrate)} :
          /\ serial_connection' = c.serial_connection
          /\ log' = log \o c.logged
          /\ is_open' = (c.serial_connection # NoSerial)
          /\ stop_cause' = c.raised
          /\ pc' = IF c.raised = "" THEN "constructed" ELSE "raised"
    /\ UNCHANGED <<validator, decoder, packet, result, rx, elements, heap, last_call,
                   cycle, timeout, writes, devices, loop, socket, trace, csv>>

NextDiscovery == Construct

SpecDiscovery == InitDiscovery /\ [][NextDiscovery]_vars

(* C22: when discovery finds no candidate, or no candidate opens, the     *)
(* constructor fails with DeviceNotFound.                                  *)
C22_ExhaustedIsDeviceNotFound ==
    pc = "raised" => stop_cause = "DeviceNotFound"

(* the part of C22 the code keeps: the candidates are tried in order, the *)
(* first that opens becomes the connection, and every one tried before it  *)
(* has its failure logged                                                  *)
C22_FirstThatOpens ==
    pc = "constructed" =>
        LET cands == find_devices(devices)
        IN  \E i \in 1..Len(cands) :
                /\ cands[i].opens
                /\ \A j \in 1..(i - 1) : ~cands[j].opens
                /\ serial_connection = Serial(cands[i].path, DefaultBaudrate)
                /\ Len(log) = i - 1

----------------------------------------------------------------------------
(* A MonitorGroup used directly: built from a mapping name -> element,     *)
(* children added with add_element, updated with update_element, and       *)
(* measured with get_height.                                               *)
MaxChildren == 1
ChildNames == {"a", "b"}

(* a group with its border flag *)
MonitorGroupOf(group_id, elems, border) ==
    [kind |-> "MonitorGroup", element_id |-> group_id, elements |-> elems,
     border |-> border]

(* one element of every class, not yet owned by a group *)
Pool ==
    << TextElement("t", <<97, 10, 98>>),
       ProgressBar("p", 10, MAX_MONITOR_WIDTH),
       RangeBar("r", 0, 100, 1),
       Table("tb", <<Col1, Col2>>, <<Var1, Var2>>),
       LogMonitor("l", 1, MAX_MONITOR_WIDTH),
       MachineState("m", <<"s1", "s2", "s3">>),
       IndicatorLamp("lamp") >>

(* the mappings a group is built from: distinct names, any pool elements *)
Mappings ==
    {m \in BoundedSeq([key : ChildNames, value : 1..Len(Pool)], MaxChildren) :
        \A i, j \in 1..Len(m) : i # j => m[i].key # m[j].key}

(* d[k] = v on a dict: a known key keeps its place *)
dict_set(items, k, v) ==
    IF HasKey(items, k)
    THEN [i \in 1..Len(items) |-> IF items[i].key = k THEN [key |-> k, value |-> v]
                                  ELSE items[i]]
    ELSE Append(items, [key |-> k, value |-> v])

(* MonitorGroup(group_id, elements, border) *)
new_group(hp, group_id, mapping, border) ==
    LET c == construct_elements(hp, group_id, mapping)
    IN Append(c.heap, MonitorGroupOf(group_id, c.elements, border))

(* the child is stored as it is, under the name alone *)
group_add_element_Bare(hp, g, element_name, r) ==
    [hp EXCEPT ![g].elements = dict_set(hp[g].elements, element_name, r)]

(* MonitorGroup.add_element(element_name, element) *)
group_add_element(hp, g, element_name, r) ==
    [hp EXCEPT ![r].element_id = Qualified(hp[g].element_id, element_name),
               ![g].elements = dict_set(hp[g].elements,
                                        Qualified(hp[g].element_id, element_name), r)]

(* get_height() by the element's class; LogMonitor, MachineState and       *)
(* IndicatorLamp define none, and neither does MonitorElement              *)
Height(n) == [tag |-> "int", val |-> <<n>>, exc |-> ""]
Count(s, c) == Cardinality({i \in 1..Len(s) : s[i] = c})

element_get_height(o) ==
    IF o.kind = "TextElement" THEN Height(Count(o.text, 10) + 1)
    ELSE IF o.kind \in {"ProgressBar", "RangeBar"} THEN Height(1)
    ELSE IF o.kind = "Table" THEN Height(Len(o.variables) + 2)
    ELSE Raise("AttributeError")

(* sum(element.get_height() for element in self.elements.values()) *)
RECURSIVE sum_heights(_, _, _)
sum_heights(hp, items, i) ==
    IF i > Len(items) THEN Height(0)
    ELSE IF element_get_height(hp[items[i].value]).tag = "raise"
         THEN element_get_height(hp[items[i].value])
         ELSE IF sum_heights(hp, items, i + 1).tag = "raise"
              THEN sum_heights(hp, items, i + 1)
              ELSE Height(element_get_height(hp[items[i].value]).val[1]
                            + sum_heights(hp, items, i + 1).val[1])

group_get_height(hp, g) ==
    IF sum_heights(hp, hp[g].elements, 1).tag = "raise"
    THEN sum_heights(hp, hp[g].elements, 1)
    ELSE IF hp[g].border THEN Height(sum_heights(hp, hp[g].elements, 1).val[1] + 2)
         ELSE sum_heights(hp, hp[g].elements, 1)

get_height(hp, r) ==
    IF hp[r].kind = "MonitorGroup" THEN group_get_height(hp, r)
    ELSE element_get_height(hp[r])

GroupCall(op, element_id, target, v, mapping, raised) ==
    [op |-> op, element_id |-> element_id, target |-> target, value |-> v,
     mapping |-> mapping, raised |-> raised]

InitGroup ==
    /\ validator = NoValidator /\ decoder = NoDecoder
    /\ packet = <<>> /\ result = NoResult
    /\ rx = <<>> /\ is_open = FALSE /\ pc = "init" /\ stop_cause = ""
    /\ heap = Pool /\ elements = <<>>
    /\ last_call = GroupCall("none", "", 0, StrVal(<<>>), <<>>, "")
    /\ cycle = NoCycle /\ timeout = FALSE /\ writes = 0
    /\ IdleExt

Frame23 ==
    UNCHANGED <<validator, decoder, packet, rx, is_open, pc, stop_cause, cycle,
                timeout, writes, serial_connection, devices, log, socket, trace,
                loop, csv>>

(* group = MonitorGroup("G", mapping, border) *)
GroupConstruct ==
    \E mapping \in Mappings, border \in BOOLEAN :
        /\ elements = <<>>
        /\ heap' = new_group(heap, "G", mapping, border)
        /\ elements' = <<Len(heap')>>
        /\ last_call' = GroupCall("MonitorGroup", "G", Len(heap'), StrVal(<<>>), mapping, "")
        /\ result' = NoResult
        /\ Frame23

(* group.add_element(element_name, element), once, with an element that   *)
(* is in no group                                                          *)
GroupAddElement ==
    \E element_name \in ChildNames, r \in 1..Len(Pool) :
        /\ elements # <<>>
        /\ \A q \in 1..Len(Pool) : heap[q].element_id = Pool[q].element_id
        /\ heap' = group_add_element(heap, elements[1], element_name, r)
        /\ last_call' = GroupCall("add_element", element_name, r, StrVal(<<>>), <<>>, "")
        /\ result' = NoResult
        /\ UNCHANGED elements
        /\ Frame23

(* group.update_element(element_id, value) *)
GroupUpdateElement ==
    \E element_id \in {Qualified("G", n) : n \in ChildNames} \cup ChildNames,
       v \in UpdateValues :
        /\ elements # <<>>
        /\ LET u == update_element(heap, elements[1], element_id, v)
           IN /\ heap' = u.heap
              /\ last_call' = GroupCall("update_element", element_id, u.target, v,
                                        <<>>, u.raised)
        /\ result' = NoResult
        /\ UNCHANGED elements
        /\ Frame23

(* element.get_height(), of an element or of the group *)
GetHeight ==
    \E r \in DOMAIN heap :
        /\ result' = get_height(heap, r)
        /\ last_call' = GroupCall("get_height", heap[r].element_id, r, StrVal(<<>>),
                                  <<>>, result'.exc)
        /\ UNCHANGED <<heap, elements>>
        /\ Frame23

NextGroup == GroupConstruct \/ GroupAddElement \/ GroupUpdateElement \/ GetHeight

SpecGroup == InitGroup /\ [][NextGroup]_vars

(* C23: a child given to the constructor under name n, or added with      *)
(* add_element(n, element), is stored under "{group_id}.{n}", and          *)
(* update_element("{group_id}.{n}", value) applies element.update(value)   *)
(* to that child and to nothing else.                                      *)
C23_ChildrenUnderQualifiedId ==
    [][/\ last_call'.op = "MonitorGroup" =>
            LET g == heap'[last_call'.target]
                m == last_call'.mapping
            IN /\ Len(g.elements) = Len(m)
               /\ \A i \in 1..Len(m) :
                     /\ HasKey(g.elements, Qualified(g.element_id, m[i].key))
                     /\ heap'[Lookup(g.elements, Qualified(g.element_id, m[i].key))]
                            = heap[m[i].value]
       /\ last_call'.op = "add_element" =>
            LET g == heap'[elements[1]]
                key == Qualified(g.element_id, last_call'.element_id)
            IN /\ HasKey(g.elements, key)
               /\ Lookup(g.elements, key) = last_call'.target
               /\ heap'[last_call'.target].element_id = key
       /\ (/\ last_call'.op = "update_element"
           /\ HasKey(heap[elements[1]].elements, last_call'.element_id)) =>
            LET child == Lookup(heap[elements[1]].elements, last_call'.element_id)
            IN /\ last_call'.element_id \in {Qualified("G", n) : n \in ChildNames}
               /\ last_call'.target = child
               /\ heap'[child] = element_update(heap[child], last_call'.value).obj
               /\ \A r \in DOMAIN heap : r # child => heap'[r] = heap[r]]_vars

(* the group was built with a progress bar under "a", a range bar was      *)
(* added as "b", and update_element("G.b", "5") moved the range bar only   *)
C23_Witness ==
    /\ last_call.op = "update_element"
    /\ last_call.element_id = "G.b"
    /\ last_call.target = 3
    /\ heap[3].element_id = "G.b"
    /\ heap[3].current_value = 5
    /\ Len(heap) = 9
    /\ heap[8].kind = "ProgressBar" /\ heap[8].current_step = 0
    /\ heap[9].elements = <<[key |-> "G.a", value |-> 8], [key |-> "G.b", value |-> 3]>>

(* C24: get_height() returns an integer for every element class, and for  *)
(* a group over any children.                                              *)
C24_HeightIsAnInteger ==
    last_call.op = "get_height" => result.tag = "int"

(* the part of C24 the code keeps: a group whose children all measure      *)
(* themselves is as high as their sum, plus 2 with a border                *)
C24_GroupHeightIsSum ==
    (last_call.op = "get_height" /\ heap[last_call.target].kind = "MonitorGroup"
        /\ result.tag = "int") =>
        LET g == heap[last_call.target]
        IN \E h \in [1..Len(g.elements) -> 1..4] :
              /\ \A i \in 1..Len(h) :
                    element_get_height(heap[g.elements[i].value]) = Height(h[i])
              /\ result.val[1] = (IF Len(h) = 0 THEN 0
                                  ELSE IF Len(h) = 1 THEN h[1] ELSE h[1] + h[2])
                                 + (IF g.border THEN 2 ELSE 0)

----------------------------------------------------------------------------
(* The two loops as tasks of one event loop: SerialUpdateServer.start      *)
(* (ingestion) and MonitorManager.update_at_fixed_rate (rendering).        *)
(* loop.running is the task that holds the thread, "none" when every task  *)
(* is suspended at an await.  A task is resumed only when none runs, and   *)
(* it gives the thread back only where its code awaits.  process_update    *)
(* is followed one Manager.update at a time.                               *)
LoopLines == {<<D1, COMMA, D2, NL>>, <<D2, NL>>, <<NL>>}

(* the statements of start() that await: the sleep that ends a cycle *)
is_await_Any(position) == position \in {"sleep", "dispatch"}
is_await(position) == position = "sleep"

(* where start() stands after the update of item i of n *)
next_position(i, n) == IF i < n THEN "dispatch" ELSE "sleep"

TraceEvent(op, element_id) == [op |-> op, element_id |-> element_id]

InitLoop ==
    /\ validator = NoValidator
    /\ decoder = OrderedDecoder(<<"a", "b">>, COMMA)
    /\ timeout = TRUE
    /\ packet = <<>> /\ result = NoResult
    /\ rx = <<>> /\ is_open = TRUE /\ pc = "sleep" /\ stop_cause = ""
    /\ heap = <<TextElement("a", <<>>), RangeBar("b", 0, 100, 1)>>
    /\ elements = <<1, 2>>
    /\ last_call = NoCall /\ cycle = NoCycle /\ writes = 0
    /\ serial_connection = Serial("/dev/ttyUSB0", DefaultBaudrate)
    /\ devices = <<>> /\ log = <<>> /\ socket = <<>> /\ csv = NoLogger
    /\ trace = <<>>
    /\ loop = [now |-> 0, running |-> "none",
               since |-> [t \in {"start", "render"} |-> 0],
               delay |-> [t \in {"start", "render"} |-> 0]]

Frame25 ==
    UNCHANGED <<validator, decoder, packet, elements, last_call, timeout,
                serial_connection, devices, log, socket, csv>>

(* the device sends one more line *)
LoopDeviceWrite ==
    \E line \in LoopLines :
        /\ is_open
        /\ writes < MaxWrites
        /\ rx' = rx \o line
        /\ writes' = writes + 1
        /\ UNCHANGED <<result, is_open, pc, stop_cause, heap, cycle, trace, loop>>
        /\ Frame25

(* start() resumed from its sleep: poll, read a line, decode it; with a    *)
(* mapping in hand it enters process_update, otherwise it sleeps again; a  *)
(* decode error ends start()                                               *)
IngestPoll ==
    /\ pc = "sleep" /\ loop.running = "none" /\ awake(loop, "start")
    /\ IF rx = <<>>
       THEN /\ loop' = asyncio_sleep(loop, "start", 1)
            /\ UNCHANGED <<rx, result, cycle, trace, pc, stop_cause, is_open>>
       ELSE /\ rx' = SubSeq(rx, Len(readline(rx)) + 1, Len(rx))
            /\ result' = decode(decoder, readline(rx))
            /\ cycle' = [NoCycle EXCEPT !.line = readline(rx), !.buffered = rx]
            /\ IF result'.tag = "raise"
               THEN /\ pc' = "stopped" /\ stop_cause' = "decode" /\ is_open' = FALSE
                    /\ UNCHANGED <<trace, loop>>
               ELSE IF Truthy(result')
               THEN /\ pc' = "dispatch"
                    /\ loop' = [loop EXCEPT !.running = "start"]
                    /\ trace' = Append(trace, TraceEvent("process_update", ""))
                    /\ UNCHANGED <<stop_cause, is_open>>
               ELSE /\ loop' = asyncio_sleep(loop, "start", 1)
                    /\ UNCHANGED <<trace, pc, stop_cause, is_open>>
    /\ UNCHANGED <<heap, writes>>
    /\ Frame25

(* the next Manager.update of process_update; after the last one           *)
(* process_update returns and start() reaches its sleep                    *)
IngestUpdate ==
    /\ pc = "dispatch" /\ loop.running \in {"none", "start"}
    /\ LET i == Len(cycle.updates) + 1
           item == result.val[i]
           u == update(elements, heap, item.key, item.value)
           position == next_position(i, Len(result.val))
       IN /\ heap' = u.heap
          /\ cycle' = [cycle EXCEPT !.updates =
                          Append(@, [element_id |-> item.key, value |-> item.value,
                                     raised |-> u.raised])]
          /\ trace' = Append(trace, TraceEvent("update", item.key))
                        \o (IF position = "sleep"
                            THEN <<TraceEvent("return", "")>> ELSE <<>>)
          /\ pc' = position
          /\ loop' = IF is_await(position)
                     THEN [asyncio_sleep(loop, "start",
                                         IF position = "sleep" THEN 1 ELSE 0)
                              EXCEPT !.running = "none"]
                     ELSE [loop EXCEPT !.running = "start"]
    /\ UNCHANGED <<rx, result, stop_cause, is_open, writes>>
    /\ Frame25

(* update_at_fixed_rate resumed: display_all(), then its sleep *)
Render ==
    /\ loop.running = "none" /\ awake(loop, "render")
    /\ heap' = display_all(elements, heap).heap
    /\ trace' = Append(trace, TraceEvent("display_all", ""))
    /\ loop' = asyncio_sleep(loop, "render", 1)
    /\ UNCHANGED <<rx, result, cycle, pc, stop_cause, is_open, writes>>
    /\ Frame25

(* the clock moves while every task is suspended *)
LoopTick ==
    /\ loop.running = "none"
    /\ loop.now < MaxTime
    /\ loop' = [loop EXCEPT !.now = @ + 1]
    /\ UNCHANGED <<rx, result, cycle, pc, stop_cause, is_open, writes, heap, trace>>
    /\ Frame25

NextLoop == LoopDeviceWrite \/ IngestPoll \/ IngestUpdate \/ Render \/ LoopTick

SpecLoop == InitLoop /\ [][NextLoop]_vars

(* C25: no display_all runs inside a process_update: every display_all of *)
(* the trace comes before process_update was entered or after it          *)
(* returned, so the updates of one packet lie between two consecutive      *)
(* display_all calls.                                                      *)
C25_UpdatesNotInterleaved ==
    \A j \in 1..Len(trace) :
        trace[j].op = "display_all" =>
            \A i \in 1..(j - 1) :
                trace[i].op = "process_update" =>
                    \E k \in (i + 1)..(j - 1) : trace[k].op = "return"

(* a packet of two updates went through between two renderings *)
C25_Witness ==
    \E j \in 1..Len(trace) :
        /\ j + 5 <= Len(trace)
        /\ trace[j].op = "display_all"
        /\ trace[j + 1].op = "process_update"
        /\ trace[j + 2] = TraceEvent("update", "a")
        /\ trace[j + 3] = TraceEvent("update", "b")
        /\ trace[j + 4].op = "return"
        /\ trace[j + 5].op = "display_all"
        /\ heap[1].text = <<D1>>

(* C26: once start() is in its polling loop, whatever takes it out of the *)
(* loop (an exception of a cycle, an I/O error, a cancellation) leaves the *)
(* serial connection closed when start() ends.                             *)
C26_LeavingClosesConnection ==
    [][/\ (pc = "poll" /\ pc' # "poll") => (pc' = "stopped" /\ ~is_open')
       /\ pc' = "stopped" => ~is_open']_vars

(* start() was cancelled between two cycles and closed the connection *)
C26_Witness ==
    /\ pc = "stopped" /\ stop_cause = "cancelled" /\ ~is_open /\ writes = 1

----------------------------------------------------------------------------
(* The message-bus transport: ZeroMQUpdateServer.start (server.py) with    *)
(* the process_update it inherits from UpdateServer, and beside it         *)
(* ZeroMQUpdateManager.start_subscriber (update_manager.py) with           *)
(* UpdateManager.process_update.  socket.owner is the class that holds the *)
(* subscriber socket, socket.pending the messages not yet received.        *)
Messages ==
    {<<97, 32, 49>>, <<98, 32, 53>>, <<98, 32, 120>>, <<113, 32, 49>>, <<97>>, <<>>}
    \* "a 1", "b 5", "b x", "q 1", "a", ""

(* str.split(): the runs of non-blank characters *)
RECURSIVE split_ws(_)
split_ws(s) ==
    IF s = <<>> THEN <<>>
    ELSE IF IsSpace(s[1]) THEN split_ws(Tail(s))
    ELSE LET n == CHOOSE k \in 1..Len(s) :
                     /\ \A j \in 1..k : ~IsSpace(s[j])
                     /\ (k = Len(s) \/ IsSpace(s[k + 1]))
         IN <<SubSeq(s, 1, n)>> \o split_ws(SubSeq(s, n + 1, Len(s)))

(* the element id a token spells *)
id_of(token) == IF token = <<97>> THEN "a" ELSE IF token = <<98>> THEN "b" ELSE "?"

(* UpdateManager.process_update(message): split, update(element_id,       *)
(* *update_args), every exception caught and printed                       *)
manager_process_update(els, hp, message) ==
    LET update_info == split_ws(message)
    IN IF update_info = <<>>
       THEN [heap |-> hp, updates |-> <<>>, raised |-> ""]
       ELSE IF Len(update_info) = 1
       THEN [heap |-> hp, raised |-> "",
             updates |-> <<[element_id |-> id_of(update_info[1]),
                            value |-> StrVal(<<>>),
                            raised |-> IF id_of(update_info[1]) = "?" THEN ""
                                       ELSE "TypeError"]>>]
       ELSE LET u == update(els, hp, id_of(update_info[1]), StrVal(update_info[2]))
            IN [heap |-> u.heap, raised |-> "",
                updates |-> <<[element_id |-> id_of(update_info[1]),
                               value |-> StrVal(update_info[2]),
                               raised |-> u.raised]>>]

(* what the loop of the socket's owner does with one message: the server   *)
(* hands the text to UpdateServer.process_update, which wants a mapping    *)
received(owner, els, hp, message) ==
    IF owner = "ZeroMQUpdateServer"
    THEN process_update(els, hp, Ret(message))
    ELSE manager_process_update(els, hp, message)

InitZmq ==
    /\ validator = NoValidator /\ decoder = NoDecoder
    /\ packet = <<>> /\ result = NoResult
    /\ rx = <<>> /\ is_open = FALSE /\ pc = "recv" /\ stop_cause = ""
    /\ heap = <<TextElement("a", <<>>), RangeBar("b", 0, 100, 1)>>
    /\ elements = <<1, 2>>
    /\ last_call = NoCall /\ cycle = NoCycle /\ timeout = FALSE /\ writes = 0
    /\ serial_connection = NoSerial /\ devices = <<>> /\ log = <<>>
    /\ trace = <<>> /\ loop = NoLoop /\ csv = NoLogger
    /\ socket \in {[owner |-> o, pending |-> <<>>] :
                      o \in {"ZeroMQUpdateServer", "ZeroMQUpdateManager"}}

Frame27 ==
    UNCHANGED <<validator, decoder, packet, result, rx, is_open, elements, last_call,
                timeout, serial_connection, devices, log, trace, loop, csv>>

(* a publisher sends one more message *)
Publish ==
    \E message \in Messages :
        /\ writes < MaxWrites
        /\ socket' = [socket EXCEPT !.pending = Append(@, message)]
        /\ writes' = writes + 1
        /\ UNCHANGED <<pc, stop_cause, heap, cycle>>
        /\ Frame27

(* one turn of `while True`: recv_string() returns the oldest message and  *)
(* process_update is called with it; an exception that leaves              *)
(* process_update ends the loop                                            *)
Receive ==
    /\ pc = "recv"
    /\ socket.pending # <<>>
    /\ \E p \in {received(socket.owner, elements, heap, Head(socket.pending))} :
          /\ heap' = p.heap
          /\ cycle' = [NoCycle EXCEPT !.line = Head(socket.pending),
                                      !.updates = p.updates, !.raised = p.raised]
          /\ pc' = IF p.raised # "" THEN "stopped" ELSE "recv"
          /\ stop_cause' = IF p.raised # "" THEN "AttributeError" ELSE ""
    /\ socket' = [socket EXCEPT !.pending = Tail(@)]
    /\ UNCHANGED writes
    /\ Frame27

NextZmq == Publish \/ Receive

SpecZmq == InitZmq /\ [][NextZmq]_vars

(* C27: every message ZeroMQUpdateServer.start receives becomes the       *)
(* Manager.update calls for the element id it names, and the subscriber    *)
(* loop keeps receiving after any message.                                 *)
C27_MessagesDispatchedLoopGoesOn ==
    socket.owner = "ZeroMQUpdateServer" =>
        /\ pc = "recv"
        /\ Len(split_ws(cycle.line)) >= 2 =>
              /\ Len(cycle.updates) = 1
              /\ cycle.updates[1].element_id = id_of(split_ws(cycle.line)[1])

(* what C27 says, of the subscriber of update_manager.py: it holds there *)
C27_ManagerDispatchesLoopGoesOn ==
    socket.owner = "ZeroMQUpdateManager" =>
        /\ pc = "recv"
        /\ Len(split_ws(cycle.line)) >= 2 =>
              /\ Len(cycle.updates) = 1
              /\ cycle.updates[1].element_id = id_of(split_ws(cycle.line)[1])
              /\ cycle.updates[1].value = StrVal(split_ws(cycle.line)[2])

----------------------------------------------------------------------------
(* AppMonitorReader.read_data over the bytes waiting on the port (rx).     *)
(* Positions are 1-based: position i is Python's index i - 1.  The         *)
(* dict_encoding_map is empty, decode_value gives the byte itself.  The    *)
(* value of a fixed-point packet is kept as the integer unpacked, the      *)
(* number of thousandths.                                                  *)
MaxBuffer == 7
READER_START == 170
READER_END == 255
TYPE_FIXED == 1
TYPE_CHARS == 2
ReaderBytes == {READER_START, READER_END, TYPE_FIXED, TYPE_CHARS, 0}

ReturnsNone == [tag |-> "None", val |-> <<>>, exc |-> ""]

(* struct.unpack_from("<i", raw, k - 1): four bytes, little-endian, signed *)
unpack_int32(raw, k) ==
    raw[k] + 256 * raw[k + 1] + 65536 * raw[k + 2]
        + 16777216 * (IF raw[k + 3] >= 128 THEN raw[k + 3] - 256 ELSE raw[k + 3])

(* the bytes from k up to the null terminator, or to the end of the data *)
chars_length(raw, k) ==
    IF \E z \in k..Len(raw) : raw[z] = 0
    THEN (CHOOSE z \in k..Len(raw) : raw[z] = 0 /\ \A y \in k..(z - 1) : raw[y] # 0) - k
    ELSE Len(raw) + 1 - k

RECURSIVE scan_packets(_, _)

(* lines 65-87: params_length is read without a length check; a missing    *)
(* param returns None; without the end byte the while loop goes on         *)
after_value(raw, element_id, value, k) ==
    IF k > Len(raw) THEN Raise("IndexError")
    ELSE IF k + raw[k] > Len(raw) THEN ReturnsNone
    ELSE IF k + raw[k] + 1 <= Len(raw) /\ raw[k + raw[k] + 1] = READER_END
    THEN Dict([element_id |-> element_id, value |-> value,
               params |-> SubSeq(raw, k + 1, k + raw[k])])
    ELSE scan_packets(raw, k + raw[k] + 1)

(* lines 50-63: the value by data type, from position k *)
value_at(raw, element_id, data_type, k) ==
    IF data_type = TYPE_FIXED
    THEN after_value(raw, element_id, IntVal(unpack_int32(raw, k)), k + 4)
    ELSE IF data_type = TYPE_CHARS
    THEN IF utf8_decode(SubSeq(raw, k, k + chars_length(raw, k) - 1)).tag = "raise"
         THEN Raise("UnicodeDecodeError")
         ELSE after_value(raw, element_id,
                          StrVal(SubSeq(raw, k, k + chars_length(raw, k) - 1)),
                          k + chars_length(raw, k) + 1)
    ELSE ReturnsNone

(* the while loop from position i *)
scan_packets(raw, i) ==
    IF i > Len(raw) THEN ReturnsNone
    ELSE IF raw[i] # READER_START THEN ReturnsNone
    ELSE IF i + 6 > Len(raw) THEN ReturnsNone
    ELSE value_at(raw, raw[i + 1], raw[i + 2], i + 3)

read_data(raw) == IF raw = <<>> THEN ReturnsNone ELSE scan_packets(raw, 1)

InitReader ==
    /\ validator = NoValidator /\ decoder = NoDecoder
    /\ packet = <<>> /\ result = NoResult
    /\ rx \in BoundedSeq(ReaderBytes, MaxBuffer)
    /\ is_open = TRUE /\ pc = "init" /\ stop_cause = ""
    /\ elements = <<>> /\ heap = <<>> /\ last_call = NoCall /\ cycle = NoCycle
    /\ timeout = FALSE /\ writes = 0
    /\ IdleExt

(* reader.read_data(): everything waiting is read and parsed *)
ReadData ==
    /\ pc = "init"
    /\ packet' = rx
    /\ rx' = <<>>
    /\ result' = read_data(rx)
    /\ pc' = "returned"
    /\ UNCHANGED <<validator, decoder, is_open, stop_cause, elements, heap,
                   last_call, cycle, timeout, writes>>
    /\ UNCHANGED ext

NextReader == ReadData

SpecReader == InitReader /\ [][NextReader]_vars

(* C28: read_data never raises: it returns one decoded packet or nothing, *)
(* whatever the bytes are.                                                 *)
C28_ReadDataNeverRaises ==
    pc = "returned" => result.tag \in {"dict", "None"}

----------------------------------------------------------------------------
(* TextFormatter.format_text on an integer.  width and precision are       *)
(* either None or a number: [none |-> TRUE] stands for None.               *)
MaxWidth == 4
PLUS == 43
MINUS == 45
FormatValues == (0 - 12)..12
Paddings == {SP, 48, 42}          \* " ", "0", "*"
NoneArg == [none |-> TRUE, n |-> 0]
Arg(n) == [none |-> FALSE, n |-> n]

TextFormatter(text, width, precision, force_sign, padding) ==
    [kind |-> "TextFormatter", text |-> text, width |-> width,
     precision |-> precision, force_sign |-> force_sign, padding |-> padding]

(* str(n) without precision, f"{n:.{precision}f}" with one, n >= 0 *)
formatted_number(n, precision) ==
    IF precision.none \/ precision.n = 0 THEN ToDecimal(n)
    ELSE ToDecimal(n) \o <<46>> \o Rep(48, precision.n)

sign_char(f) ==
    IF f.force_sign \/ f.text < 0 THEN (IF f.text >= 0 THEN <<PLUS>> ELSE <<MINUS>>)
    ELSE <<>>

(* lines 113-128: the sign is put in only where padding is added, or       *)
(* where there is no width                                                 *)
place(sign, number, width, padding) ==
    IF width.none THEN sign \o number
    ELSE IF Len(number) + Len(sign) < width.n
    THEN IF padding = SP
         THEN Rep(padding, width.n - Len(number) - Len(sign)) \o sign \o number
         ELSE sign \o Rep(padding, width.n - Len(number) - Len(sign)) \o number
    ELSE number

(* format_text(): the result, and the formatter left with abs(text) when   *)
(* a sign was taken off                                                    *)
format_text(f) ==
    [obj |-> [f EXCEPT !.text = IF sign_char(f) # <<>> THEN Abs(f.text) ELSE f.text],
     out |-> Ret(place(sign_char(f), formatted_number(Abs(f.text), f.precision),
                       f.width, f.padding))]

InitFormatter ==
    /\ validator = NoValidator /\ decoder = NoDecoder
    /\ packet = <<>> /\ result = NoResult
    /\ rx = <<>> /\ is_open = FALSE /\ pc = "init" /\ stop_cause = ""
    /\ elements = <<>>
    /\ heap \in {<<TextFormatter(text, width, precision, force_sign, padding)>> :
                    text \in FormatValues,
                    width \in {NoneArg} \cup {Arg(n) : n \in 0..MaxWidth},
                    precision \in {NoneArg, Arg(0), Arg(1)},
                    force_sign \in BOOLEAN, padding \in Paddings}
    /\ last_call = NoCall /\ cycle = NoCycle /\ timeout = FALSE /\ writes = 0
    /\ IdleExt

(* formatter.format_text() *)
FormatText ==
    /\ pc = "init"
    /\ heap' = <<format_text(heap[1]).obj>>
    /\ result' = format_text(heap[1]).out
    /\ last_call' = [NoCall EXCEPT !.op = "format_text", !.value = IntVal(heap[1].text)]
    /\ pc' = "returned"
    /\ UNCHANGED <<validator, decoder, packet, rx, is_open, stop_cause, elements,
                   cycle, timeout, writes>>
    /\ UNCHANGED ext

NextFormatter == FormatText

SpecFormatter == InitFormatter /\ [][NextFormatter]_vars

(* C29: the result of format_text holds "-" for a negative value, and     *)
(* "+" for a non-negative value with force_sign, whatever the width, the   *)
(* precision and the padding.                                              *)
C29_SignNeverLost ==
    pc = "returned" =>
        /\ last_call.value.int < 0 => \E i \in 1..Len(result.val) : result.val[i] = MINUS
        /\ (heap[1].force_sign /\ last_call.value.int >= 0) =>
              \E i \in 1..Len(result.val) : result.val[i] = PLUS

----------------------------------------------------------------------------
(* CSVLogger: one thread calls log(row) and then stop(), the worker thread *)
(* runs _worker.  Rows are numbered in the order they are logged and have  *)
(* the logger's fieldnames as keys.  Threads interleave between the        *)
(* statements named by csv.main and csv.worker; the queue is thread-safe.  *)
(* Whether flush_interval has passed at a check is either way.             *)
MaxRows == 3

CSVLogger(batch_size) ==
    [kind |-> "CSVLogger", batch_size |-> batch_size,
     row_queue |-> <<>>, stop_event |-> FALSE,
     batch |-> <<>>,            \* the worker's local list
     file |-> <<>>,             \* rows given to writer.writerow, in order
     flushed |-> 0,             \* how many of them outfile.flush() has put out
     closed |-> FALSE,
     logged |-> <<>>,           \* rows passed to log(), in order
     main |-> "running", worker |-> "while"]

(* for r in batch: writerow(r); outfile.flush(); batch = [] *)
write_batch(c) ==
    [c EXCEPT !.file = c.file \o c.batch,
              !.flushed = Len(c.file) + Len(c.batch),
              !.batch = <<>>]

(* the row taken from the queue is dropped *)
drain_one_Lost(c) == [c EXCEPT !.row_queue = Tail(c.row_queue)]

(* batch.append(self.row_queue.get()) *)
drain_one(c) ==
    [c EXCEPT !.batch = Append(c.batch, Head(c.row_queue)),
              !.row_queue = Tail(c.row_queue)]

InitCsv ==
    /\ validator = NoValidator /\ decoder = NoDecoder
    /\ packet = <<>> /\ result = NoResult
    /\ rx = <<>> /\ is_open = FALSE /\ pc = "init" /\ stop_cause = ""
    /\ elements = <<>> /\ heap = <<>> /\ last_call = NoCall /\ cycle = NoCycle
    /\ timeout = FALSE /\ writes = 0
    /\ serial_connection = NoSerial /\ devices = <<>> /\ log = <<>>
    /\ socket = <<>> /\ trace = <<>> /\ loop = NoLoop
    /\ csv \in {CSVLogger(batch_size) : batch_size \in 1..2}

Frame30 ==
    UNCHANGED <<validator, decoder, packet, result, rx, is_open, pc, stop_cause,
                elements, heap, last_call, cycle, timeout, writes,
                serial_connection, devices, log, socket, trace, loop>>

(* log(row) *)
CsvLog ==
    /\ csv.main = "running"
    /\ Len(csv.logged) < MaxRows
    /\ csv' = [csv EXCEPT !.row_queue = Append(@, Len(csv.logged) + 1),
                          !.logged = Append(@, Len(csv.logged) + 1)]
    /\ Frame30

(* stop(): stop_event.set(), then thread.join() *)
CsvStop ==
    /\ csv.main = "running"
    /\ csv' = [csv EXCEPT !.stop_event = TRUE, !.main = "join"]
    /\ Frame30

(* stop(): join() has returned, outfile.close() *)
CsvJoined ==
    /\ csv.main = "join" /\ csv.worker = "done"
    /\ csv' = [csv EXCEPT !.closed = TRUE, !.main = "stopped"]
    /\ Frame30

(* while not self.stop_event.is_set() *)
WorkerWhile ==
    /\ csv.worker = "while"
    /\ csv' = [csv EXCEPT !.worker = IF csv.stop_event THEN "drain" ELSE "get"]
    /\ Frame30

(* row_queue.get(timeout=flush_interval): a row, or queue.Empty after the  *)
(* interval with nothing in the queue                                      *)
WorkerGet ==
    /\ csv.worker = "get"
    /\ csv' = IF csv.row_queue # <<>>
              THEN [drain_one(csv) EXCEPT !.worker = "flush"]
              ELSE [csv EXCEPT !.worker = "flush"]
    /\ Frame30

(* the batch is written when it is full or the interval has passed *)
WorkerFlush ==
    \E elapsed \in BOOLEAN :
        /\ csv.worker = "flush"
        /\ csv' = IF csv.batch # <<>> /\ (Len(csv.batch) >= csv.batch_size \/ elapsed)
                  THEN [write_batch(csv) EXCEPT !.worker = "while"]
                  ELSE [csv EXCEPT !.worker = "while"]
        /\ Frame30

(* after the stop signal: the queue is emptied into the batch, and the     *)
(* batch is written                                                        *)
WorkerDrain ==
    /\ csv.worker = "drain"
    /\ csv' = IF csv.row_queue # <<>> THEN drain_one(csv)
              ELSE [write_batch(csv) EXCEPT !.worker = "done"]
    /\ Frame30

NextCsv ==
    CsvLog \/ CsvStop \/ CsvJoined \/ WorkerWhile \/ WorkerGet \/ WorkerFlush
        \/ WorkerDrain

SpecCsv == InitCsv /\ [][NextCsv]_vars

====
